---- MODULE Spec2Model ----
(***************************************************************************)
(* Order-book synchronisation engine of hummingbot:                        *)
(*   hummingbot/core/data_type/order_book_tracker.py (OrderBookTracker).   *)
(*                                                                         *)
(* The tracker runs on one asyncio event loop.  A coroutine runs without   *)
(* interruption between two suspension points, so every action below is    *)
(* the code between two awaits of one coroutine.                           *)
(*                                                                         *)
(* A _track_single_book task captures its OrderBook, its Queue and its     *)
(* past-diffs deque by reference when it starts.  While those objects are  *)
(* the ones the tracker's dictionaries hold for the pair, the task is      *)
(* "attached" and the state keeps one copy, in the dictionary; from the    *)
(* moment the dictionary entry is replaced or popped the task carries the  *)
(* object itself.  Tasks are kept as a bag of records, so that states do   *)
(* not differ by object addresses.                                         *)
(***************************************************************************)
EXTENDS Integers, Sequences, FiniteSets, Bags, TLC

\* ------------------------------------------------------------------ bounds
MaxSeq == 3          \* update ids are 1..MaxSeq
MaxMsgs == 3         \* diff/snapshot events delivered to the routers in one run
MaxTasks == 3        \* _track_single_book tasks alive at a time
MaxAdds == 2         \* concurrent add_trading_pair calls
MaxRemoves == 1      \* concurrent remove_trading_pair calls
MaxRaises == 1       \* exceptions raised while a message is applied, in one run
MaxConnects == 2     \* connections one listen_for_subscriptions loop opens in one run
MaxPings == 2        \* pings sent on one connection
MaxDsCalls == 2      \* subscribe_to_trading_pair / unsubscribe_from_trading_pair calls in one run
MaxRecords == 6      \* LatencyStats.record calls in one run
MaxRate == 3         \* LatencyStats.SAMPLE_RATE is 1..MaxRate

\* ------------------------------------------------- program constants (scaled)
\* OrderBookTracker.PAST_DIFF_WINDOW_SIZE is 32 and the saved-message deques
\* have maxlen 1000 in the source; the model keeps the deques' behaviour and
\* scales the capacities so that a full deque is reachable.
PAST_DIFF_WINDOW_SIZE == 2
SAVED_MESSAGES_MAXLEN == 2

Pairs == {"A", "B"}
ConfiguredPairs == <<"A", "B">>
Prices == {1}
DiffSizes == {0, 2}
SnapshotSizes == {1}

\* ------------------------------------------------------------ order book
\* An OrderBookMessage: type, update_id, bids and asks as sequences of
\* <<price, size>> rows.
DiffMsg(u, b, a) == [type |-> "DIFF", update_id |-> u, bids |-> b, asks |-> a]
SnapshotMsg(u, b, a) == [type |-> "SNAPSHOT", update_id |-> u, bids |-> b, asks |-> a]

\* the contents a diff event may carry: one bid level, set or deleted
DiffContents == {<< << <<p, s>> >>, <<>> >> : p \in Prices, s \in DiffSizes}
\* the contents a snapshot may carry
SnapshotContents == {<< << <<p, s>> >>, <<>> >> : p \in Prices, s \in SnapshotSizes}

\* One side of a book: a set of <<price, size>> levels, one per price, size > 0.
Upsert(side, row) ==
  {l \in side : l[1] # row[1]} \cup (IF row[2] = 0 THEN {} ELSE {row})

RECURSIVE ApplyRows(_, _)
ApplyRows(side, rows) ==
  IF rows = <<>> THEN side ELSE ApplyRows(Upsert(side, Head(rows)), Tail(rows))

EmptyBook == [snapshot_uid |-> 0, bids |-> {}, asks |-> {}, last_trade_price |-> 0]

\* OrderBook.apply_diffs(bids, asks, update_id): merge the rows, no sequencing check.
ApplyDiffs(book, bids, asks, update_id) ==
  [book EXCEPT !.bids = ApplyRows(@, bids), !.asks = ApplyRows(@, asks)]

\* OrderBook.apply_snapshot(bids, asks, update_id): replace the content.
ApplySnapshot(book, bids, asks, update_id) ==
  [book EXCEPT !.snapshot_uid = update_id,
               !.bids = ApplyRows({}, bids), !.asks = ApplyRows({}, asks)]

\* OrderBook.apply_trade(event): the trade becomes the book's last trade
ApplyTrade(book, price) == [book EXCEPT !.last_trade_price = price]

RECURSIVE ReplayDiffs(_, _, _)
ReplayDiffs(book, diffs, after) ==
  IF diffs = <<>> THEN book
  ELSE LET d == Head(diffs) IN
       ReplayDiffs(IF d.update_id > after
                     THEN ApplyDiffs(book, d.bids, d.asks, d.update_id)
                     ELSE book,
                   Tail(diffs), after)

\* OrderBook.restore_from_snapshot_and_diffs(snapshot, diffs)
RestoreFromSnapshotAndDiffs(book, snapshot, diffs) ==
  ReplayDiffs(ApplySnapshot(book, snapshot.bids, snapshot.asks, snapshot.update_id),
              diffs, snapshot.update_id)

\* data_source.get_new_order_book(pair): a fresh book holding a snapshot
NewOrderBook(u, c) == ApplySnapshot(EmptyBook, c[1], c[2], u)

\* collections.deque(maxlen = n).append
DequeAppend(q, x, n) ==
  IF Len(q) < n THEN Append(q, x) ELSE Append(Tail(q), x)

\* ------------------------------------------------------------------ state
VARIABLES
  trading_pairs,             \* self._trading_pairs (a list, mutated in place)
  order_books_initialized,   \* self._order_books_initialized (asyncio.Event)
  order_books,               \* self._order_books: pair -> OrderBook
  tracking_message_queues,   \* self._tracking_message_queues: pair -> Queue
  past_diffs_windows,        \* self._past_diffs_windows: pair -> deque
  saved_message_queues,      \* self._saved_message_queues: pair -> deque
  per_pair_metrics,          \* self._metrics.per_pair_metrics: the keys present
  metrics,                   \* self._metrics: the global counters
  tasks,                     \* the _track_single_book tasks (a bag); "mapped" marks
                             \* the one self._tracking_tasks holds for its pair
  init_task,                 \* self._init_order_books_task
  routers,                   \* the diff router and snapshot router tasks
  adds,                      \* add_trading_pair calls in flight (a bag)
  removes,                   \* remove_trading_pair calls in flight (a bag)
  n_msgs,                    \* events delivered so far
  ready_ever_set,            \* the ready event has been set at least once (observation only)
  hist,                      \* what was buffered, fetched, enqueued, handled and applied, how many
                             \* diffs had been applied when the newest task was created and how many
                             \* buffered when an add_trading_pair last failed (observation only);
                             \* pair_counts: diffs_processed and diffs_rejected of the
                             \* OrderBookPairMetrics object that per_pair_metrics holds for a pair
  ev,                        \* what the last step did (observation only)
  stats,                     \* one LatencyStats object
  ds                         \* one order book data source with its listening loops

vars == <<trading_pairs, order_books_initialized, order_books, tracking_message_queues,
          past_diffs_windows, saved_message_queues, per_pair_metrics, metrics, tasks,
          init_task, routers, adds, removes, n_msgs, ready_ever_set, hist, ev, stats, ds>>

\* the tracker's own state, without the observation of the last step
tracker_vars == <<trading_pairs, order_books_initialized, order_books, tracking_message_queues,
                  past_diffs_windows, saved_message_queues, per_pair_metrics, metrics, tasks,
                  init_task, routers, adds, removes, n_msgs, ready_ever_set, hist>>

NoEv == [kind |-> "none", pair |-> "", ret |-> FALSE, why |-> "", uid |-> 0, snap |-> 0, src |-> "", rows |-> <<>>]
Ev(kind, pair) == [NoEv EXCEPT !.kind = kind, !.pair = pair]
RetEv(kind, pair, ret, why) == [NoEv EXCEPT !.kind = kind, !.pair = pair, !.ret = ret, !.why = why]

\* The current state as one record; an operation of the code is a function
\* from such a record to the record after it.
S == [trading_pairs |-> trading_pairs,
      order_books_initialized |-> order_books_initialized,
      order_books |-> order_books,
      tracking_message_queues |-> tracking_message_queues,
      past_diffs_windows |-> past_diffs_windows,
      saved_message_queues |-> saved_message_queues,
      per_pair_metrics |-> per_pair_metrics,
      metrics |-> metrics,
      tasks |-> tasks, init_task |-> init_task, routers |-> routers,
      adds |-> adds, removes |-> removes, n_msgs |-> n_msgs,
      ready_ever_set |-> ready_ever_set, hist |-> hist, ev |-> NoEv]

\* dictionary entries: present = the key is in the dictionary
NoBook == [present |-> FALSE, book |-> EmptyBook]
NoQueue == [present |-> FALSE, q |-> <<>>]
NoInit == [pc |-> "none", idx |-> 0, pair |-> ""]
\* the counters of a new OrderBookPairMetrics object
NoPairCounts == [diffs_processed |-> 0, diffs_rejected |-> 0]
\* the two router tasks: alive after start(); the snapshot router passes its wait
\* for the ready event; each keeps a cache of the pairs whose metrics it looked up;
\* diff_stale: the pairs whose object in the diff router's cache is no longer the
\* one per_pair_metrics holds; backoff: the loops that sleep after an exception;
\* failed: the loops that have caught an exception since they were started
\* (observation only)
NoRouters == [alive |-> FALSE, snapshot_ready |-> FALSE, diff_cache |-> {}, snapshot_cache |-> {},
              trade_cache |-> {}, diff_stale |-> {}, backoff |-> {}, failed |-> {}]

\* A task: st is where its coroutine stands; mapped: it is self._tracking_tasks[pair];
\* awaited: remove_trading_pair calls awaiting it; att / watt: the book and queue /
\* the window it captured are still the dictionaries' entries for its pair.
NewTask(p) == [pair |-> p, st |-> "new", mapped |-> TRUE, awaited |-> 0,
               att |-> FALSE, book |-> EmptyBook, queue |-> <<>>,
               watt |-> FALSE, win |-> <<>>]

One(x) == SetToBag({x})

RECURSIVE SumOver(_, _)
SumOver(els, bag) ==
  IF els = {} THEN 0
  ELSE LET e == CHOOSE x \in els : TRUE IN bag[e] + SumOver(els \ {e}, bag)

\* the bag of F(e) for the elements e of a bag
BagMap(bag, F(_)) ==
  LET els == BagToSet(bag) IN
  [r \in {F(e) : e \in els} |-> SumOver({e \in els : F(e) = r}, bag)]

BagFilter(bag, P(_)) ==
  LET els == {e \in BagToSet(bag) : P(e)} IN [e \in els |-> bag[e]]

\* ------------------------------------------------------ objects and garbage
\* A task that will never touch its objects again keeps none of them.
Holding(t) == t.st \in {"blocked", "running", "backoff"}

Canonical(t) ==
  IF ~Holding(t)
    THEN [t EXCEPT !.att = FALSE, !.book = EmptyBook, !.queue = <<>>, !.watt = FALSE, !.win = <<>>]
  ELSE IF t.st = "blocked" /\ ~t.att /\ t.queue = <<>>
    \* blocked for ever on a queue nobody can reach
    THEN [t EXCEPT !.book = EmptyBook, !.watt = FALSE, !.win = <<>>]
  ELSE IF t.att
    THEN [t EXCEPT !.book = EmptyBook, !.queue = <<>>, !.win = IF t.watt THEN <<>> ELSE @]
  ELSE [t EXCEPT !.win = IF t.watt THEN <<>> ELSE @]

\* A finished task stays only while the map or an awaiting call refers to it.
Kept(t) == t.st \in {"cancelled", "failed"} => (t.mapped \/ t.awaited > 0)

Collect(s) == [s EXCEPT !.tasks = BagFilter(BagMap(@, Canonical), Kept)]

Commit(r) ==
  \E s \in {Collect(r)} :
  /\ trading_pairs' = s.trading_pairs
  /\ order_books_initialized' = s.order_books_initialized
  /\ order_books' = s.order_books
  /\ tracking_message_queues' = s.tracking_message_queues
  /\ past_diffs_windows' = s.past_diffs_windows
  /\ saved_message_queues' = s.saved_message_queues
  /\ per_pair_metrics' = s.per_pair_metrics
  /\ metrics' = s.metrics
  /\ tasks' = s.tasks
  /\ init_task' = s.init_task
  /\ routers' = s.routers
  /\ adds' = s.adds
  /\ removes' = s.removes
  /\ n_msgs' = s.n_msgs
  /\ ready_ever_set' = s.ready_ever_set
  /\ hist' = s.hist
  /\ ev' = s.ev
  /\ UNCHANGED <<stats, ds>>

\* The tracker's fields after OrderBookTracker.__init__
TrackerInit(pairs) ==
  /\ trading_pairs = pairs
  /\ order_books_initialized = FALSE
  /\ order_books = [p \in Pairs |-> NoBook]
  /\ tracking_message_queues = [p \in Pairs |-> NoQueue]
  /\ past_diffs_windows = [p \in Pairs |-> NoQueue]
  /\ saved_message_queues = [p \in Pairs |-> NoQueue]
  /\ per_pair_metrics = {}
  /\ metrics = [total_diffs_processed |-> 0, total_diffs_rejected |-> 0, total_diffs_queued |-> 0,
                total_snapshots_processed |-> 0, total_snapshots_rejected |-> 0,
                total_trades_processed |-> 0, total_trades_rejected |-> 0]
  /\ tasks = EmptyBag
  /\ init_task = NoInit
  /\ routers = NoRouters
  /\ adds = EmptyBag
  /\ removes = EmptyBag
  /\ n_msgs = 0
  /\ ready_ever_set = FALSE
  /\ hist = [buffered |-> <<>>, fetched |-> EmptyBook, applied |-> <<>>,
             enqueued |-> <<>>, handled |-> <<>>, raised |-> 0, since |-> 0, failed_at |-> 0,
             pair_counts |-> [p \in Pairs |-> NoPairCounts]]
  /\ ev = NoEv

\* ------------------------------------------------------------- LatencyStats
\* float('inf'), the initial min_ms: larger than every latency of the model
INF == 1000
\* the dataclass defaults (ROLLING_WINDOW_SIZE and the deque's maxlen are 100
\* and SAMPLE_RATE is 10 in the source; scaled so that a full window is reached)
ROLLING_WINDOW_MAXLEN == 2
SAMPLE_RATE == 3

\* LatencyStats(): the dataclass defaults; "recorded" keeps every value passed
\* to record (observation only)
NewLatencyStats(rate) ==
  [SAMPLE_RATE |-> rate, count |-> 0, total_ms |-> 0, min_ms |-> INF, max_ms |-> 0,
   recent_samples |-> <<>>, sample_counter |-> 0, recorded |-> <<>>]

\* ------------------------------------------------ order book data sources
\* The listening loops of a data source: Kucoin and Lambdaplex have one ("ws");
\* Bybit perpetual has one per category of market.
Listeners == {"ws", "linear", "non_linear"}

\* One loop: pc is where it stands; gen counts the connections it has opened,
\* the current WSAssistant being the gen-th; trading_pairs is the argument of
\* Bybit's _listen_for_subscriptions_on_url; subscribed and pings are what the
\* exchange has received on the current connection (observation only).
NoListener == [pc |-> "off", gen |-> 0, trading_pairs |-> <<>>, subscribed |-> {}, pings |-> 0]

NoRaw == [type |-> "none", ts |-> 0, data |-> <<>>]
NoMsg == [type |-> "none", update_id |-> 0, bids |-> <<>>, asks |-> <<>>]

\* The data source after __init__: ws[n] is the WSAssistant attribute of loop
\* n (0 is None, g the g-th connection of that loop); calls are the
\* subscribe_to_trading_pair / unsubscribe_from_trading_pair calls in flight;
\* raw is a websocket message handed to _parse_order_book_diff_message and
\* diff what that call put on the message queue.
NewDataSource(kind, pairs) ==
  [kind |-> kind, trading_pairs |-> pairs,
   ws |-> [n \in Listeners |-> 0],
   listeners |-> [n \in Listeners |-> NoListener],
   calls |-> {}, n_calls |-> 0,
   raw |-> NoRaw, diff |-> NoMsg]

\* The state after OrderBookTracker.__init__
InitWith(pairs) ==
  /\ TrackerInit(pairs)
  /\ stats = NewLatencyStats(SAMPLE_RATE)
  /\ ds = NewDataSource("none", <<>>)


\* the task runs: no other coroutine gets the event loop before it suspends
Running == \E t \in BagToSet(tasks) : t.st = "running"

\* ------------------------------------------------------------- small helpers
\* an add_trading_pair call in flight: where it stands, and whether it had
\* to wait for the ready event
AddRec(pc, p, waited) == [pc |-> pc, pair |-> p, waited |-> waited]
\* a remove_trading_pair call in flight: where it stands, and whether a
\* cancellation delivered to it was caught by the try/except of lines 488-491
RemRec(pc, p) == [pc |-> pc, pair |-> p, swallowed |-> FALSE]

InList(p, list) == \E i \in 1..Len(list) : list[i] = p

\* list.remove(x): drops the first occurrence
ListRemove(list, p) ==
  LET k == CHOOSE i \in 1..Len(list) : list[i] = p /\ \A j \in 1..(i - 1) : list[j] # p
  IN [i \in 1..(Len(list) - 1) |-> IF i < k THEN list[i] ELSE list[i + 1]]

\* Task.cancel(): a task that has not finished is cancelled at its suspension
\* point and does not run any further code of its coroutine.
Cancelled(t) ==
  IF t.st \in {"new", "blocked", "backoff"} THEN [t EXCEPT !.st = "cancelling"] ELSE t

\* The dictionary entries of pair p are replaced or popped: the tasks that
\* captured the old objects keep them.
DetachBook(s, p) ==
  LET A == {t \in BagToSet(s.tasks) : t.pair = p /\ t.att}
      d(t, q) == [t EXCEPT !.att = FALSE, !.book = s.order_books[p].book, !.queue = q]
      f(t) == IF t \in A THEN d(t, <<>>) ELSE t
  IN IF A = {} THEN s
     ELSE \* what is left in the queue goes to one of the tasks waiting on it
          LET c == CHOOSE t \in A : TRUE
          IN [s EXCEPT !.tasks = BagMap(@ (-) One(c), f)
                                   (+) One(d(c, s.tracking_message_queues[p].q))]

DetachWindow(s, p) ==
  LET f(t) == IF t.pair = p /\ t.watt
                THEN [t EXCEPT !.watt = FALSE, !.win = s.past_diffs_windows[p].q]
                ELSE t
  IN [s EXCEPT !.tasks = BagMap(@, f)]

\* self._tracking_tasks.pop(p, None) / overwriting the entry
Unmap(s, p) ==
  LET f(t) == IF t.pair = p THEN [t EXCEPT !.mapped = FALSE] ELSE t
  IN [s EXCEPT !.tasks = BagMap(@, f)]

IsMapped(s, p) == \E t \in BagToSet(s.tasks) : t.pair = p /\ t.mapped
MappedTask(s, p) == CHOOSE t \in BagToSet(s.tasks) : t.pair = p /\ t.mapped

\* self._tracking_tasks[p].cancel()
CancelMapped(s, p) ==
  LET f(t) == IF t.pair = p /\ t.mapped THEN Cancelled(t) ELSE t
  IN [s EXCEPT !.tasks = BagMap(@, f)]

\* asyncio.Event.set(): every coroutine waiting on the event is made runnable
SetReady(s) ==
  LET f(r) == IF r.pc = "wait" THEN [r EXCEPT !.pc = "woken"] ELSE r
  IN [s EXCEPT !.order_books_initialized = TRUE,
               !.ready_ever_set = TRUE,
               !.adds = BagMap(@, f),
               !.routers.snapshot_ready = s.routers.alive]

\* ------------------------------------------------------------ start / stop
\* OrderBookTracker.stop()
Stop(s) ==
  LET f(t) == IF t.mapped THEN [Cancelled(t) EXCEPT !.mapped = FALSE] ELSE t
  IN [s EXCEPT !.tasks = BagMap(@, f),
               !.init_task = NoInit,
               !.routers = NoRouters,
               !.order_books_initialized = FALSE]

\* as Start, but the loops that wait for the ready event do not wait
Start_NoGate(s) ==
  [Stop(s) EXCEPT !.init_task = [pc |-> "new", idx |-> 0, pair |-> ""],
                  !.routers = [NoRouters EXCEPT !.alive = TRUE, !.snapshot_ready = TRUE]]

\* OrderBookTracker.start()
Start(s) ==
  [Stop(s) EXCEPT !.init_task = [pc |-> "new", idx |-> 0, pair |-> ""],
                  !.routers = [NoRouters EXCEPT !.alive = TRUE]]

start ==
  /\ ~Running
  /\ Commit(Start(S))

stop ==
  /\ ~Running
  /\ Commit(Stop(S))

\* ------------------------------------------------------- _init_order_books
\* lines 396-398 / 442-448: store the book, create the queue, spawn the task
TrackPair(s, p, book) ==
  LET s1 == Unmap(DetachBook(s, p), p)
  IN [s1 EXCEPT !.order_books[p] = [present |-> TRUE, book |-> book],
                !.tracking_message_queues[p] = [present |-> TRUE, q |-> <<>>],
                !.tasks = @ (+) One(NewTask(p)),
                !.hist.fetched = book,
                !.hist.since = Len(s.hist.applied)]

CanTrack(s) == BagCardinality(s.tasks) < MaxTasks

\* the for loop takes the element at the iterator's index of the list as it is now
InitAdvance(s, idx) ==
  IF idx < Len(s.trading_pairs)
    THEN [s EXCEPT !.init_task = [pc |-> "fetch", idx |-> idx, pair |-> s.trading_pairs[idx + 1]]]
    ELSE [SetReady(s) EXCEPT !.init_task = [pc |-> "done", idx |-> idx, pair |-> ""],
                             !.ev = Ev("init_ready", "")]

InitOrderBooksBegin ==
  /\ ~Running
  /\ init_task.pc = "new"
  /\ Commit(InitAdvance(S, 0))

InitOrderBooksFetched(u, c) ==
  /\ ~Running
  /\ init_task.pc = "fetch"
  /\ CanTrack(S)
  /\ Commit([TrackPair(S, init_task.pair, NewOrderBook(u, c)) EXCEPT !.init_task.pc = "sleep"])

\* get_new_order_book raises: the exception ends the startup task
InitOrderBooksFetchRaises ==
  /\ ~Running
  /\ init_task.pc = "fetch"
  /\ Commit([S EXCEPT !.init_task.pc = "failed"])

InitOrderBooksSlept ==
  /\ ~Running
  /\ init_task.pc = "sleep"
  /\ Commit(InitAdvance(S, init_task.idx + 1))

\* --------------------------------------------------------- add_trading_pair
\* as AddRollback, but the message queue entry is left behind
AddRollback_KeepsQueue(s, p) ==
  LET s1 == DetachBook(s, p)
      s2 == [s1 EXCEPT !.order_books[p] = NoBook]
  IN IF IsMapped(s2, p) THEN Unmap(CancelMapped(s2, p), p) ELSE s2

\* lines 455-463: clean up partial state
AddRollback(s, p) ==
  LET s1 == DetachBook(s, p)
      s2 == [s1 EXCEPT !.order_books[p] = NoBook, !.tracking_message_queues[p] = NoQueue]
  IN IF IsMapped(s2, p) THEN Unmap(CancelMapped(s2, p), p) ELSE s2

\* as AddEnter, without the already-tracked check
AddEnter_NoCheck(s, p) ==
  IF s.order_books_initialized
    THEN [s EXCEPT !.adds = @ (+) One(AddRec("subscribe", p, FALSE))]
    ELSE [s EXCEPT !.adds = @ (+) One(AddRec("wait", p, TRUE))]

\* as AddEnter, without the wait for the ready event
AddEnter_NoWait(s, p) ==
  IF s.order_books[p].present
    THEN [s EXCEPT !.ev = RetEv("add_return", p, FALSE, "already_tracked")]
    ELSE [s EXCEPT !.adds = @ (+) One(AddRec("subscribe", p, FALSE))]

\* lines 418-424: the already-tracked check and the wait for the ready event
AddEnter(s, p) ==
  IF s.order_books[p].present
    THEN [s EXCEPT !.ev = RetEv("add_return", p, FALSE, "already_tracked")]
    ELSE IF s.order_books_initialized
      THEN [s EXCEPT !.adds = @ (+) One(AddRec("subscribe", p, FALSE))]
      ELSE [s EXCEPT !.adds = @ (+) One(AddRec("wait", p, TRUE))]

AddTradingPairCall(p) ==
  /\ ~Running
  /\ Commit(AddEnter(S, p))

\* the coroutine resumes after the event was set and calls subscribe_to_trading_pair
AddTradingPairWoken(r) ==
  /\ ~Running
  /\ r.pc = "woken"
  /\ Commit([S EXCEPT !.adds = (@ (-) One(r)) (+) One([r EXCEPT !.pc = "subscribe"])])

Waited(r) == IF r.waited THEN "waited" ELSE "direct"

\* as AddSubscribed, but the pair is recorded before the result is looked at
AddSubscribed_RecordsFirst(s, r, res) ==
  LET p == r.pair
      s1 == [s EXCEPT !.adds = @ (-) One(r),
                      !.trading_pairs = IF InList(p, @) THEN @ ELSE Append(@, p)] IN
  CASE res = "false" -> [s1 EXCEPT !.ev = RetEv("add_return", p, FALSE, "subscribe_false")]
    [] res = "raise" -> [AddRollback(s1, p) EXCEPT !.ev = RetEv("add_return", p, FALSE, "subscribe_raised")]
    [] OTHER -> [s1 EXCEPT !.adds = @ (+) One([r EXCEPT !.pc = "fetch"])]

\* lines 431-438 and the except clause for a raising subscribe
AddSubscribed(s, r, res) ==
  LET p == r.pair
      s1 == [s EXCEPT !.adds = @ (-) One(r)] IN
  CASE res = "false" -> [s1 EXCEPT !.ev = RetEv("add_return", p, FALSE, "subscribe_false")]
    [] res = "raise" -> [AddRollback(s1, p) EXCEPT !.ev = RetEv("add_return", p, FALSE, "subscribe_raised")]
    [] OTHER -> [s1 EXCEPT !.trading_pairs = IF InList(p, @) THEN @ ELSE Append(@, p),
                           !.adds = @ (+) One([r EXCEPT !.pc = "fetch"])]

AddTradingPairSubscribeReturns(r, res) ==
  /\ ~Running
  /\ r.pc = "subscribe"
  /\ Commit(AddSubscribed(S, r, res))

\* lines 442-451: the initial book arrived
AddFetched(s, r, book) ==
  [TrackPair([s EXCEPT !.adds = @ (-) One(r)], r.pair, book)
     EXCEPT !.ev = [RetEv("add_return", r.pair, TRUE, "added") EXCEPT !.src = Waited(r)]]

AddTradingPairFetchReturns(r, u, c) ==
  /\ ~Running
  /\ r.pc = "fetch"
  /\ CanTrack(S)
  /\ Commit(AddFetched(S, r, NewOrderBook(u, c)))

\* get_new_order_book raises: except clause, lines 455-463
AddFetchFailed(s, r) ==
  [AddRollback([s EXCEPT !.adds = @ (-) One(r)], r.pair)
     EXCEPT !.hist.failed_at = Len(s.hist.buffered),
            !.ev = RetEv("add_return", r.pair, FALSE, "fetch_raised")]

AddTradingPairFetchRaises(r) ==
  /\ ~Running
  /\ r.pc = "fetch"
  /\ Commit(AddFetchFailed(S, r))

\* ------------------------------------------------------ remove_trading_pair
\* as RemoveEnter, without the not-tracked check
RemoveEnter_NoCheck(s, p) ==
  IF ~IsMapped(s, p)
    THEN [s EXCEPT !.removes = @ (+) One(RemRec("unsubscribe", p))]
    ELSE LET t == MappedTask(s, p)
             c == Cancelled(t)
         IN CASE c.st = "failed" ->
                   [s EXCEPT !.ev = RetEv("remove_return", p, FALSE, "exception")]
              [] c.st = "cancelled" ->
                   [Unmap(s, p) EXCEPT !.removes = @ (+) One(RemRec("unsubscribe", p))]
              [] OTHER ->
                   [s EXCEPT !.tasks = (@ (-) One(t)) (+) One([c EXCEPT !.awaited = @ + 1]),
                             !.removes = @ (+) One(RemRec("await_task", p))]

\* lines 477-495 up to the first suspension point
RemoveEnter(s, p) ==
  IF ~s.order_books[p].present
    THEN [s EXCEPT !.ev = RetEv("remove_return", p, FALSE, "not_tracked")]
    ELSE IF ~IsMapped(s, p)
      THEN [s EXCEPT !.removes = @ (+) One(RemRec("unsubscribe", p))]
      ELSE LET t == MappedTask(s, p)
               c == Cancelled(t)
           IN CASE c.st = "failed" ->
                     \* awaiting a task that ended with an exception re-raises it
                     [s EXCEPT !.ev = RetEv("remove_return", p, FALSE, "exception")]
                [] c.st = "cancelled" ->
                     \* the task is done already: CancelledError is swallowed at once
                     [Unmap(s, p) EXCEPT !.removes = @ (+) One(RemRec("unsubscribe", p))]
                [] OTHER ->
                     [s EXCEPT !.tasks = (@ (-) One(t)) (+) One([c EXCEPT !.awaited = @ + 1]),
                               !.removes = @ (+) One(RemRec("await_task", p))]

RemoveTradingPairCall(p) ==
  /\ ~Running
  /\ Commit(RemoveEnter(S, p))

\* lines 490-495: the awaited task t has ended; pop the entry, call unsubscribe
RemoveTaskEnded(s, r, t) ==
  LET s1 == [s EXCEPT !.tasks = (@ (-) One(t)) (+) One([t EXCEPT !.awaited = @ - 1])]
  IN [Unmap(s1, r.pair) EXCEPT
        !.removes = (@ (-) One(r)) (+) One([r EXCEPT !.pc = "unsubscribe"])]

RemoveTradingPairTaskEnded(r, t) ==
  /\ ~Running
  /\ r.pc = "await_task"
  /\ t.pair = r.pair /\ t.awaited > 0 /\ t.st = "cancelled"
  /\ Commit(RemoveTaskEnded(S, r, t))

\* lines 500-511: clean up data structures, metrics and the pair list
RemoveCleanup(s, p) ==
  [DetachWindow(DetachBook(s, p), p) EXCEPT
     !.order_books[p] = NoBook,
     !.tracking_message_queues[p] = NoQueue,
     !.past_diffs_windows[p] = NoQueue,
     !.saved_message_queues[p] = NoQueue,
     !.per_pair_metrics = @ \ {p},
     !.hist.pair_counts[p] = NoPairCounts,
     !.routers.diff_stale = @ \cup ({p} \cap s.routers.diff_cache),
     !.trading_pairs = IF InList(p, @) THEN ListRemove(@, p) ELSE @]

\* as RemoveUnsubscribed, but the cleanup also runs when unsubscribe raised
RemoveUnsubscribed_CleansOnRaise(s, r, res) ==
  LET p == r.pair
      src == IF r.swallowed THEN "cancel_swallowed" ELSE ""
      s1 == [s EXCEPT !.removes = @ (-) One(r)] IN
  IF res = "raise"
    THEN [RemoveCleanup(s1, p) EXCEPT
            !.ev = [RetEv("remove_return", p, FALSE, "exception") EXCEPT !.src = src]]
    ELSE [RemoveCleanup(s1, p) EXCEPT
            !.ev = [RetEv("remove_return", p, TRUE, res) EXCEPT !.src = src]]

\* lines 495-520 after unsubscribe_from_trading_pair came back
RemoveUnsubscribed(s, r, res) ==
  LET p == r.pair
      src == IF r.swallowed THEN "cancel_swallowed" ELSE ""
      s1 == [s EXCEPT !.removes = @ (-) One(r)] IN
  IF res = "raise"
    THEN [s1 EXCEPT !.ev = [RetEv("remove_return", p, FALSE, "exception") EXCEPT !.src = src]]
    ELSE [RemoveCleanup(s1, p) EXCEPT
            !.ev = [RetEv("remove_return", p, TRUE, res) EXCEPT !.src = src]]

RemoveTradingPairUnsubscribeReturns(r, res) ==
  /\ ~Running
  /\ r.pc = "unsubscribe"
  /\ Commit(RemoveUnsubscribed(S, r, res))

\* --------------------------------------------- cancellation of the two calls
\* Task.cancel() on the caller of add_trading_pair: CancelledError is raised at
\* the suspension point. The wait of line 424 is outside the try; inside the
\* try, lines 453-454 re-raise it. No rollback runs.
AddCancelled(s, r) ==
  [s EXCEPT !.adds = @ (-) One(r),
            !.ev = RetEv("add_raise", r.pair, FALSE, "cancelled")]

AddTradingPairCancelled(r) ==
  /\ ~Running
  /\ Commit(AddCancelled(S, r))

\* Task.cancel() on the caller of remove_trading_pair. While the call awaits
\* the processing task (line 489), the CancelledError it gets is caught by
\* "except asyncio.CancelledError: pass" (lines 490-491) and the call goes on
\* once that task has ended; at the unsubscribe await, lines 516-517 re-raise.
RemoveCancelled(s, r) ==
  IF r.pc = "await_task"
    THEN [s EXCEPT !.removes = (@ (-) One(r)) (+) One([r EXCEPT !.swallowed = TRUE])]
    ELSE [s EXCEPT !.removes = @ (-) One(r),
                   !.ev = RetEv("remove_raise", r.pair, FALSE, "cancelled")]

RemoveTradingPairCancelled(r) ==
  /\ ~Running
  /\ ~r.swallowed
  /\ Commit(RemoveCancelled(S, r))

\* -------------------------------------------------------- _track_single_book
\* A task with the state around it; its book/queue/window are the dictionary
\* entries while it is attached, its own copies afterwards.
XBook(x) == IF x.t.att THEN x.s.order_books[x.t.pair].book ELSE x.t.book
XQueue(x) == IF x.t.att THEN x.s.tracking_message_queues[x.t.pair].q ELSE x.t.queue
XWin(x) == IF x.t.watt THEN x.s.past_diffs_windows[x.t.pair].q ELSE x.t.win

XSetBook(x, b) ==
  IF x.t.att THEN [x EXCEPT !.s.order_books[x.t.pair].book = b] ELSE [x EXCEPT !.t.book = b]
XSetQueue(x, q) ==
  IF x.t.att THEN [x EXCEPT !.s.tracking_message_queues[x.t.pair].q = q] ELSE [x EXCEPT !.t.queue = q]
XSetWin(x, w) ==
  IF x.t.watt THEN [x EXCEPT !.s.past_diffs_windows[x.t.pair].q = w] ELSE [x EXCEPT !.t.win = w]

Take(s, t) == [s |-> [s EXCEPT !.tasks = @ (-) One(t)], t |-> t]
Put(x) == [x.s EXCEPT !.tasks = @ (+) One(x.t)]

\* lines 641-650: saved_messages = self._saved_message_queues[trading_pair] creates
\* the key; the task goes on without suspending while a message is at hand
LoopTop(x) ==
  LET p == x.t.pair
      x1 == [x EXCEPT !.s.saved_message_queues[p].present = TRUE]
      avail == x1.s.saved_message_queues[p].q # <<>> \/ XQueue(x1) # <<>>
  IN Put([x1 EXCEPT !.t.st = IF avail THEN "running" ELSE "blocked"])

\* lines 635-639: the first run of the task captures window, queue and book
TrackStart(s, t) ==
  LET p == t.pair
      x == Take(s, t)
      x1 == IF x.s.past_diffs_windows[p].present THEN x
            ELSE [x EXCEPT !.s.past_diffs_windows[p] = [present |-> TRUE, q |-> <<>>]]
  IN IF ~x1.s.tracking_message_queues[p].present \/ ~x1.s.order_books[p].present
       THEN Put([x1 EXCEPT !.t.st = "failed"])   \* KeyError ends the task
       ELSE LoopTop([x1 EXCEPT !.t.att = TRUE, !.t.watt = TRUE])

TrackSingleBookStart(t) ==
  /\ ~Running
  /\ t.st = "new"
  /\ Commit(TrackStart(S, t))

\* as TrackHandle, but a snapshot is restored without the past diffs
TrackHandle_NoReplay(x, message, src) ==
  LET book == XBook(x) IN
  IF message.type = "DIFF"
    THEN LET x1 == XSetBook(x, ApplyDiffs(book, message.bids, message.asks, message.update_id))
             x2 == XSetWin(x1, DequeAppend(XWin(x1), message, PAST_DIFF_WINDOW_SIZE))
         IN [x2 EXCEPT !.s.hist.applied = Append(@, message),
                       !.s.hist.handled = IF src = "queue" THEN Append(@, message) ELSE @,
                       !.s.ev = [Ev("apply_diff", x.t.pair) EXCEPT
                                   !.uid = message.update_id, !.snap = book.snapshot_uid,
                                   !.src = src, !.rows = message.bids]]
    ELSE LET x1 == XSetBook(x, RestoreFromSnapshotAndDiffs(book, message, <<>>))
         IN [x1 EXCEPT !.s.hist.handled = IF src = "queue" THEN Append(@, message) ELSE @,
                       !.s.ev = [Ev("apply_snapshot", x.t.pair) EXCEPT
                                   !.uid = message.update_id, !.snap = book.snapshot_uid,
                                   !.src = src, !.rows = message.bids]]

\* lines 652-665: apply one message
TrackHandle(x, message, src) ==
  LET book == XBook(x) IN
  IF message.type = "DIFF"
    THEN LET x1 == XSetBook(x, ApplyDiffs(book, message.bids, message.asks, message.update_id))
             x2 == XSetWin(x1, DequeAppend(XWin(x1), message, PAST_DIFF_WINDOW_SIZE))
         IN [x2 EXCEPT !.s.hist.applied = Append(@, message),
                       !.s.hist.handled = IF src = "queue" THEN Append(@, message) ELSE @,
                       !.s.ev = [Ev("apply_diff", x.t.pair) EXCEPT
                                   !.uid = message.update_id, !.snap = book.snapshot_uid,
                                   !.src = src, !.rows = message.bids]]
    ELSE LET x1 == XSetBook(x, RestoreFromSnapshotAndDiffs(book, message, XWin(x)))
         IN [x1 EXCEPT !.s.hist.handled = IF src = "queue" THEN Append(@, message) ELSE @,
                       !.s.ev = [Ev("apply_snapshot", x.t.pair) EXCEPT
                                   !.uid = message.update_id, !.snap = book.snapshot_uid,
                                   !.src = src, !.rows = message.bids]]

\* one turn of the loop of a task that did not suspend: saved messages first
TrackTurn(s, t) ==
  LET p == t.pair
      x == Take(s, t)
      saved == x.s.saved_message_queues[p].q
  IN IF saved # <<>>
       THEN LoopTop(TrackHandle([x EXCEPT !.s.saved_message_queues[p].q = Tail(saved)],
                                Head(saved), "saved"))
       ELSE LoopTop(TrackHandle(XSetQueue(x, Tail(XQueue(x))), Head(XQueue(x)), "queue"))

TrackSingleBookTurn(t) ==
  /\ t.st = "running"
  /\ Commit(TrackTurn(S, t))

\* the task was suspended in message_queue.get() and a message arrived
TrackWake(s, t) ==
  LET x == Take(s, t)
  IN LoopTop(TrackHandle(XSetQueue(x, Tail(XQueue(x))), Head(XQueue(x)), "queue"))

TrackSingleBookWake(t) ==
  /\ ~Running
  /\ t.st = "blocked"
  /\ XQueue([s |-> S, t |-> t]) # <<>>
  /\ Commit(TrackWake(S, t))

\* as TrackFail, but the exception ends the task (a try around the loop)
TrackFail_EndsTask(x, message, src) ==
  Put([x EXCEPT !.t.st = "failed",
                !.s.hist.handled = IF src = "queue" THEN Append(@, message) ELSE @,
                !.s.hist.raised = @ + 1,
                !.s.ev = [Ev("apply_raised", x.t.pair) EXCEPT
                            !.uid = message.update_id, !.src = src]])

\* lines 668-674: applying the message raised an exception other than
\* CancelledError; it is logged and the task sleeps 5 seconds. The message
\* was taken already and is not applied.
TrackFail(x, message, src) ==
  Put([x EXCEPT !.t.st = "backoff",
                !.s.hist.handled = IF src = "queue" THEN Append(@, message) ELSE @,
                !.s.hist.raised = @ + 1,
                !.s.ev = [Ev("apply_raised", x.t.pair) EXCEPT
                            !.uid = message.update_id, !.src = src]])

\* as TrackTurn, with an exception raised while the message is applied
TrackTurnFailed(s, t) ==
  LET p == t.pair
      x == Take(s, t)
      saved == x.s.saved_message_queues[p].q
  IN IF saved # <<>>
       THEN TrackFail([x EXCEPT !.s.saved_message_queues[p].q = Tail(saved)],
                      Head(saved), "saved")
       ELSE TrackFail(XSetQueue(x, Tail(XQueue(x))), Head(XQueue(x)), "queue")

TrackSingleBookTurnRaises(t) ==
  /\ t.st = "running"
  /\ hist.raised < MaxRaises
  /\ Commit(TrackTurnFailed(S, t))

\* as TrackWake, with an exception raised while the message is applied
TrackWakeFailed(s, t) ==
  LET x == Take(s, t)
  IN TrackFail(XSetQueue(x, Tail(XQueue(x))), Head(XQueue(x)), "queue")

TrackSingleBookWakeRaises(t) ==
  /\ ~Running
  /\ t.st = "blocked"
  /\ hist.raised < MaxRaises
  /\ XQueue([s |-> S, t |-> t]) # <<>>
  /\ Commit(TrackWakeFailed(S, t))

\* line 674: asyncio.sleep(5.0) is over, the loop goes on
TrackSingleBookSlept(t) ==
  /\ ~Running
  /\ t.st = "backoff"
  /\ Commit(LoopTop(Take(S, t)))

\* CancelledError is delivered: the task is done
TrackSingleBookCancelled(t) ==
  /\ ~Running
  /\ t.st = "cancelling"
  /\ Commit([S EXCEPT !.tasks = (@ (-) One(t)) (+) One([t EXCEPT !.st = "cancelled"])])

\* --------------------------------------------------- _order_book_diff_router
\* pair_metrics.diffs_rejected += 1 / pair_metrics.diffs_processed += 1 on the
\* object of the router's cache: the counter of the map goes up unless that
\* object was popped from the map since the router cached it
PairMetricsAdd(s, p, counter) ==
  IF p \in s.routers.diff_stale THEN s
  ELSE [s EXCEPT !.hist.pair_counts[p][counter] = @ + 1]

\* as RouteDiff, but the per-pair metrics are looked up before the queue check
RouteDiff_MetricsFirst(s, p, m) ==
  IF ~s.tracking_message_queues[p].present
    THEN [s EXCEPT !.metrics.total_diffs_queued = @ + 1,
                   !.routers.diff_cache = @ \cup {p},
                   !.per_pair_metrics = IF p \in s.routers.diff_cache THEN @ ELSE @ \cup {p},
                   !.saved_message_queues[p] =
                      [present |-> TRUE, q |-> DequeAppend(@.q, m, SAVED_MESSAGES_MAXLEN)],
                   !.hist.buffered = Append(@, m),
                   !.ev = [Ev("diff_queued", p) EXCEPT !.uid = m.update_id]]
    ELSE LET \* pair_metrics_cache keeps the metrics object it looked up once
             s1 == IF p \in s.routers.diff_cache THEN s
                   ELSE [s EXCEPT !.routers.diff_cache = @ \cup {p},
                                  !.per_pair_metrics = @ \cup {p}]
             book == s.order_books[p].book
         IN IF book.snapshot_uid > m.update_id
              THEN [PairMetricsAdd(s1, p, "diffs_rejected") EXCEPT
                              !.metrics.total_diffs_rejected = @ + 1,
                              !.ev = [Ev("diff_rejected", p) EXCEPT
                                        !.uid = m.update_id, !.snap = book.snapshot_uid]]
              ELSE [PairMetricsAdd(s1, p, "diffs_processed") EXCEPT
                              !.tracking_message_queues[p].q = Append(@, m),
                              !.hist.enqueued = Append(@, [m |-> m, n |-> s.n_msgs]),
                              !.metrics.total_diffs_processed = @ + 1,
                              !.ev = [Ev("diff_accepted", p) EXCEPT
                                        !.uid = m.update_id, !.snap = book.snapshot_uid]]

\* as RouteDiff, but an accepted diff is put at the head of the queue
RouteDiff_Prepends(s, p, m) ==
  IF ~s.tracking_message_queues[p].present
    THEN [s EXCEPT !.metrics.total_diffs_queued = @ + 1,
                   !.saved_message_queues[p] =
                      [present |-> TRUE, q |-> DequeAppend(@.q, m, SAVED_MESSAGES_MAXLEN)],
                   !.hist.buffered = Append(@, m),
                   !.ev = [Ev("diff_queued", p) EXCEPT !.uid = m.update_id]]
    ELSE LET \* pair_metrics_cache keeps the metrics object it looked up once
             s1 == IF p \in s.routers.diff_cache THEN s
                   ELSE [s EXCEPT !.routers.diff_cache = @ \cup {p},
                                  !.per_pair_metrics = @ \cup {p}]
             book == s.order_books[p].book
         IN IF book.snapshot_uid > m.update_id
              THEN [PairMetricsAdd(s1, p, "diffs_rejected") EXCEPT
                              !.metrics.total_diffs_rejected = @ + 1,
                              !.ev = [Ev("diff_rejected", p) EXCEPT
                                        !.uid = m.update_id, !.snap = book.snapshot_uid]]
              ELSE [PairMetricsAdd(s1, p, "diffs_processed") EXCEPT
                              !.tracking_message_queues[p].q = <<m>> \o @,
                              !.hist.enqueued = Append(@, [m |-> m, n |-> s.n_msgs]),
                              !.metrics.total_diffs_processed = @ + 1,
                              !.ev = [Ev("diff_accepted", p) EXCEPT
                                        !.uid = m.update_id, !.snap = book.snapshot_uid]]

\* lines 536-571: one message of the diff stream
RouteDiff(s, p, m) ==
  IF ~s.tracking_message_queues[p].present
    THEN [s EXCEPT !.metrics.total_diffs_queued = @ + 1,
                   !.saved_message_queues[p] =
                      [present |-> TRUE, q |-> DequeAppend(@.q, m, SAVED_MESSAGES_MAXLEN)],
                   !.hist.buffered = Append(@, m),
                   !.ev = [Ev("diff_queued", p) EXCEPT !.uid = m.update_id]]
    ELSE LET \* pair_metrics_cache keeps the metrics object it looked up once
             s1 == IF p \in s.routers.diff_cache THEN s
                   ELSE [s EXCEPT !.routers.diff_cache = @ \cup {p},
                                  !.per_pair_metrics = @ \cup {p}]
             book == s.order_books[p].book
         IN IF book.snapshot_uid > m.update_id
              THEN [PairMetricsAdd(s1, p, "diffs_rejected") EXCEPT
                              !.metrics.total_diffs_rejected = @ + 1,
                              !.ev = [Ev("diff_rejected", p) EXCEPT
                                        !.uid = m.update_id, !.snap = book.snapshot_uid]]
              ELSE [PairMetricsAdd(s1, p, "diffs_processed") EXCEPT
                              !.tracking_message_queues[p].q = Append(@, m),
                              !.hist.enqueued = Append(@, [m |-> m, n |-> s.n_msgs]),
                              !.metrics.total_diffs_processed = @ + 1,
                              !.ev = [Ev("diff_accepted", p) EXCEPT
                                        !.uid = m.update_id, !.snap = book.snapshot_uid]]

OrderBookDiffRouter(p, u, c) ==
  /\ ~Running
  /\ routers.alive /\ "diff" \notin routers.backoff
  /\ tracking_message_queues[p].present => order_books[p].present
  /\ Commit([RouteDiff(S, p, DiffMsg(u, c[1], c[2])) EXCEPT !.n_msgs = @ + 1])

\* ----------------------------------------------- _order_book_snapshot_router
\* as RouteSnapshot, but a snapshot older than the book is rejected
RouteSnapshot_Filters(s, p, m) ==
  IF ~s.tracking_message_queues[p].present \/ s.order_books[p].book.snapshot_uid > m.update_id
    THEN [s EXCEPT !.metrics.total_snapshots_rejected = @ + 1,
                   !.ev = [Ev("snapshot_rejected", p) EXCEPT !.uid = m.update_id]]
    ELSE [s EXCEPT !.tracking_message_queues[p].q = Append(@, m),
                   !.hist.enqueued = Append(@, [m |-> m, n |-> s.n_msgs]),
                   !.metrics.total_snapshots_processed = @ + 1,
                   !.per_pair_metrics = IF p \in s.routers.snapshot_cache THEN @ ELSE @ \cup {p},
                   !.routers.snapshot_cache = @ \cup {p},
                   !.ev = [Ev("snapshot_accepted", p) EXCEPT !.uid = m.update_id]]

\* lines 604-626: one message of the snapshot stream
RouteSnapshot(s, p, m) ==
  IF ~s.tracking_message_queues[p].present
    THEN [s EXCEPT !.metrics.total_snapshots_rejected = @ + 1,
                   !.ev = [Ev("snapshot_rejected", p) EXCEPT !.uid = m.update_id]]
    ELSE [s EXCEPT !.tracking_message_queues[p].q = Append(@, m),
                   !.hist.enqueued = Append(@, [m |-> m, n |-> s.n_msgs]),
                   !.metrics.total_snapshots_processed = @ + 1,
                   !.per_pair_metrics = IF p \in s.routers.snapshot_cache THEN @ ELSE @ \cup {p},
                   !.routers.snapshot_cache = @ \cup {p},
                   !.ev = [Ev("snapshot_accepted", p) EXCEPT !.uid = m.update_id]]

OrderBookSnapshotRouter(p, u, c) ==
  /\ ~Running
  /\ routers.alive /\ routers.snapshot_ready /\ "snapshot" \notin routers.backoff
  /\ Commit([RouteSnapshot(S, p, SnapshotMsg(u, c[1], c[2])) EXCEPT !.n_msgs = @ + 1])

\* ----------------------------------------------------- _emit_trade_event_loop
\* as RouteTrade, but a trade for a pair without a book is dropped uncounted
RouteTrade_RejectUncounted(s, p, price) ==
  IF ~s.order_books[p].present
    THEN [s EXCEPT !.ev = [Ev("trade_rejected", p) EXCEPT !.uid = price]]
    ELSE [s EXCEPT !.order_books[p].book = ApplyTrade(@, price),
                   !.metrics.total_trades_processed = @ + 1,
                   !.per_pair_metrics = IF p \in s.routers.trade_cache THEN @ ELSE @ \cup {p},
                   !.routers.trade_cache = @ \cup {p},
                   !.ev = [Ev("trade_applied", p) EXCEPT !.uid = price]]

\* as RouteTrade, but a trade for a pair without a book is counted as processed
RouteTrade_CountsUnknown(s, p, price) ==
  IF ~s.order_books[p].present
    THEN [s EXCEPT !.metrics.total_trades_processed = @ + 1,
                   !.ev = [Ev("trade_rejected", p) EXCEPT !.uid = price]]
    ELSE [s EXCEPT !.order_books[p].book = ApplyTrade(@, price),
                   !.metrics.total_trades_processed = @ + 1,
                   !.per_pair_metrics = IF p \in s.routers.trade_cache THEN @ ELSE @ \cup {p},
                   !.routers.trade_cache = @ \cup {p},
                   !.ev = [Ev("trade_applied", p) EXCEPT !.uid = price]]

\* lines 687-720: one message of the trade stream
RouteTrade(s, p, price) ==
  IF ~s.order_books[p].present
    THEN [s EXCEPT !.metrics.total_trades_rejected = @ + 1,
                   !.ev = [Ev("trade_rejected", p) EXCEPT !.uid = price]]
    ELSE [s EXCEPT !.order_books[p].book = ApplyTrade(@, price),
                   !.metrics.total_trades_processed = @ + 1,
                   !.per_pair_metrics = IF p \in s.routers.trade_cache THEN @ ELSE @ \cup {p},
                   !.routers.trade_cache = @ \cup {p},
                   !.ev = [Ev("trade_applied", p) EXCEPT !.uid = price]]

\* the loop runs once the ready event was set (line 680)
EmitTradeEventLoop(p, price) ==
  /\ ~Running
  /\ routers.alive /\ routers.snapshot_ready /\ "trade" \notin routers.backoff
  /\ Commit([RouteTrade(S, p, price) EXCEPT !.n_msgs = @ + 1])

\* ---------------------------------------------- _update_last_trade_prices_loop
\* lines 376-379: get_last_traded_prices came back with a price for p. Which
\* pairs are outdated depends on the clock; a pair removed during the await
\* makes line 378 raise KeyError, which the except clause of line 384 absorbs.
LastTradePriceFetched(s, p, price) ==
  IF s.order_books[p].present
    THEN [s EXCEPT !.order_books[p].book.last_trade_price = price,
                   !.ev = [Ev("rest_price_applied", p) EXCEPT !.uid = price]]
    ELSE [s EXCEPT !.ev = [Ev("rest_price_failed", p) EXCEPT !.uid = price]]

UpdateLastTradePricesLoop(p, price) ==
  /\ ~Running
  /\ routers.alive /\ routers.snapshot_ready
  /\ Commit([LastTradePriceFetched(S, p, price) EXCEPT !.n_msgs = @ + 1])

\* ------------------------------------------------------------ specification
Results == {"true", "false", "raise"}

Seqs == 1..MaxSeq

\* ---- One trading pair, the lifecycle: start, stop, startup, overlapping
\* ---- add_trading_pair and remove_trading_pair calls, the tasks.
TrackedPairs == {"A"}
TradePrices == {1, 2}

InitOne == InitWith(<<"A">>)

Next ==
  \/ start
  \/ stop
  \/ InitOrderBooksBegin
  \/ \E c \in SnapshotContents : InitOrderBooksFetched(1, c)
  \/ InitOrderBooksFetchRaises
  \/ InitOrderBooksSlept
  \/ \E p \in TrackedPairs : BagCardinality(adds) < MaxAdds /\ AddTradingPairCall(p)
  \/ \E r \in BagToSet(adds) : AddTradingPairWoken(r)
  \/ \E r \in BagToSet(adds), res \in Results : AddTradingPairSubscribeReturns(r, res)
  \/ \E r \in BagToSet(adds), c \in SnapshotContents : AddTradingPairFetchReturns(r, 1, c)
  \/ \E r \in BagToSet(adds) : AddTradingPairFetchRaises(r)
  \/ \E p \in TrackedPairs : BagCardinality(removes) < MaxRemoves /\ RemoveTradingPairCall(p)
  \/ \E r \in BagToSet(removes), t \in BagToSet(tasks) : RemoveTradingPairTaskEnded(r, t)
  \/ \E r \in BagToSet(removes), res \in Results : RemoveTradingPairUnsubscribeReturns(r, res)
  \/ \E t \in BagToSet(tasks) : TrackSingleBookStart(t)
  \/ \E t \in BagToSet(tasks) : TrackSingleBookCancelled(t)

Spec == InitOne /\ [][Next]_vars

\* ---- One trading pair added at run time, the market data: the tracker is
\* ---- started with no configured pair, the pair is added once, diffs and
\* ---- snapshots arrive at any moment.
InitData == InitWith(<<>>)

NextData ==
  \/ init_task.pc = "none" /\ start
  \/ InitOrderBooksBegin
  \/ \E p \in TrackedPairs : adds = EmptyBag /\ ~order_books[p].present /\ AddTradingPairCall(p)
  \/ \E r \in BagToSet(adds) : AddTradingPairWoken(r)
  \/ \E r \in BagToSet(adds) : AddTradingPairSubscribeReturns(r, "true")
  \/ \E r \in BagToSet(adds), u \in Seqs, c \in SnapshotContents : AddTradingPairFetchReturns(r, u, c)
  \/ \E t \in BagToSet(tasks) : TrackSingleBookStart(t)
  \/ \E t \in BagToSet(tasks) : TrackSingleBookTurn(t)
  \/ \E t \in BagToSet(tasks) : TrackSingleBookWake(t)
  \/ \E p \in TrackedPairs, u \in Seqs, c \in DiffContents :
       n_msgs < MaxMsgs /\ OrderBookDiffRouter(p, u, c)
  \/ \E p \in TrackedPairs, u \in Seqs, c \in SnapshotContents :
       n_msgs < MaxMsgs /\ OrderBookSnapshotRouter(p, u, c)

SpecData == InitData /\ [][NextData]_vars

\* ---- Two configured pairs, startup against remove_trading_pair.
Init == InitWith(ConfiguredPairs)

NextPairs ==
  \/ start
  \/ InitOrderBooksBegin
  \/ \E c \in SnapshotContents : InitOrderBooksFetched(1, c)
  \/ InitOrderBooksFetchRaises
  \/ InitOrderBooksSlept
  \/ \E p \in Pairs : BagCardinality(removes) < MaxRemoves /\ RemoveTradingPairCall(p)
  \/ \E r \in BagToSet(removes), t \in BagToSet(tasks) : RemoveTradingPairTaskEnded(r, t)
  \/ \E r \in BagToSet(removes), res \in Results : RemoveTradingPairUnsubscribeReturns(r, res)
  \/ \E t \in BagToSet(tasks) : TrackSingleBookStart(t)
  \/ \E t \in BagToSet(tasks) : TrackSingleBookCancelled(t)

SpecPairs == Init /\ [][NextPairs]_vars

\* ================================================================ properties

\* One configured pair; add_trading_pair and remove_trading_pair calls whose
\* callers may be cancelled at any suspension point.
NextCancel ==
  \/ init_task.pc = "none" /\ start
  \/ InitOrderBooksBegin
  \/ \E c \in SnapshotContents : InitOrderBooksFetched(1, c)
  \/ InitOrderBooksSlept
  \/ \E p \in TrackedPairs : adds = EmptyBag /\ AddTradingPairCall(p)
  \/ \E r \in BagToSet(adds) : AddTradingPairWoken(r)
  \/ \E r \in BagToSet(adds), res \in Results : AddTradingPairSubscribeReturns(r, res)
  \/ \E r \in BagToSet(adds), c \in SnapshotContents : AddTradingPairFetchReturns(r, 1, c)
  \/ \E r \in BagToSet(adds) : AddTradingPairFetchRaises(r)
  \/ \E r \in BagToSet(adds) : AddTradingPairCancelled(r)
  \/ \E p \in TrackedPairs : removes = EmptyBag /\ RemoveTradingPairCall(p)
  \/ \E r \in BagToSet(removes), t \in BagToSet(tasks) : RemoveTradingPairTaskEnded(r, t)
  \/ \E r \in BagToSet(removes), res \in Results : RemoveTradingPairUnsubscribeReturns(r, res)
  \/ \E r \in BagToSet(removes) : RemoveTradingPairCancelled(r)
  \/ \E t \in BagToSet(tasks) : TrackSingleBookStart(t)
  \/ \E t \in BagToSet(tasks) : TrackSingleBookCancelled(t)

SpecCancel == InitOne /\ [][NextCancel]_vars

\* One pair that is added, removed and added again while the diff router
\* task stays alive.
NextReAdd ==
  \/ init_task.pc = "none" /\ start
  \/ InitOrderBooksBegin
  \/ \E p \in TrackedPairs : adds = EmptyBag /\ ~order_books[p].present /\ AddTradingPairCall(p)
  \/ \E r \in BagToSet(adds) : AddTradingPairWoken(r)
  \/ \E r \in BagToSet(adds) : AddTradingPairSubscribeReturns(r, "true")
  \/ \E r \in BagToSet(adds), c \in SnapshotContents : AddTradingPairFetchReturns(r, 1, c)
  \/ \E p \in TrackedPairs : removes = EmptyBag /\ adds = EmptyBag /\ RemoveTradingPairCall(p)
  \/ \E r \in BagToSet(removes), t \in BagToSet(tasks) : RemoveTradingPairTaskEnded(r, t)
  \/ \E r \in BagToSet(removes) : RemoveTradingPairUnsubscribeReturns(r, "true")
  \/ \E t \in BagToSet(tasks) : TrackSingleBookStart(t)
  \/ \E t \in BagToSet(tasks) : TrackSingleBookTurn(t)
  \/ \E t \in BagToSet(tasks) : TrackSingleBookWake(t)
  \/ \E t \in BagToSet(tasks) : TrackSingleBookCancelled(t)
  \/ \E p \in TrackedPairs, u \in Seqs, c \in DiffContents :
       n_msgs < MaxMsgs /\ OrderBookDiffRouter(p, u, c)

SpecReAdd == InitData /\ [][NextReAdd]_vars

\* One dynamically added pair with the trade stream, the REST last-trade-price
\* loop and the diff stream.
NextTrade ==
  \/ init_task.pc = "none" /\ start
  \/ InitOrderBooksBegin
  \/ \E p \in TrackedPairs : adds = EmptyBag /\ ~order_books[p].present /\ AddTradingPairCall(p)
  \/ \E r \in BagToSet(adds) : AddTradingPairWoken(r)
  \/ \E r \in BagToSet(adds) : AddTradingPairSubscribeReturns(r, "true")
  \/ \E r \in BagToSet(adds), c \in SnapshotContents : AddTradingPairFetchReturns(r, 1, c)
  \/ \E p \in TrackedPairs : removes = EmptyBag /\ adds = EmptyBag /\ RemoveTradingPairCall(p)
  \/ \E r \in BagToSet(removes), t \in BagToSet(tasks) : RemoveTradingPairTaskEnded(r, t)
  \/ \E r \in BagToSet(removes) : RemoveTradingPairUnsubscribeReturns(r, "true")
  \/ \E t \in BagToSet(tasks) : TrackSingleBookStart(t)
  \/ \E t \in BagToSet(tasks) : TrackSingleBookTurn(t)
  \/ \E t \in BagToSet(tasks) : TrackSingleBookWake(t)
  \/ \E t \in BagToSet(tasks) : TrackSingleBookCancelled(t)
  \/ \E p \in TrackedPairs, c \in DiffContents :
       n_msgs < MaxMsgs /\ OrderBookDiffRouter(p, 2, c)
  \/ \E p \in TrackedPairs, price \in TradePrices :
       n_msgs < MaxMsgs /\ EmitTradeEventLoop(p, price)
  \/ \E p \in TrackedPairs, price \in TradePrices :
       n_msgs < MaxMsgs /\ UpdateLastTradePricesLoop(p, price)

SpecTrade == InitData /\ [][NextTrade]_vars

\* One dynamically added pair with diffs and snapshots, where applying a
\* message may raise.
NextErr ==
  \/ NextData
  \/ \E t \in BagToSet(tasks) : TrackSingleBookTurnRaises(t)
  \/ \E t \in BagToSet(tasks) : TrackSingleBookWakeRaises(t)
  \/ \E t \in BagToSet(tasks) : TrackSingleBookSlept(t)

SpecErr == InitData /\ [][NextErr]_vars

\* C1: order_book.apply_diffs is never invoked with a diff whose update id is
\* <= the snapshot sequence the book has at that moment, whether the diff
\* came through the queue or through the saved-message buffer.
C1_StalenessInvariant ==
  ev.kind = "apply_diff" => ev.uid > ev.snap

\* C2: the diffs buffered for a pair while add_trading_pair was between
\* subscribe and queue creation are all applied, in arrival order, before any
\* later diff: the i-th diff applied is the i-th diff buffered.
C2_NoLostDiffs ==
  \A i \in 1..Len(hist.applied) :
    i <= Len(hist.buffered) => hist.applied[i] = hist.buffered[i]

\* the task of p has drained the buffer and no event reached p's queue so far
Drained(p) ==
  /\ order_books[p].present
  /\ saved_message_queues[p].q = <<>>
  /\ n_msgs = Len(hist.buffered)
  /\ \E t \in BagToSet(tasks) : t.pair = p /\ t.mapped /\ t.st = "blocked"

\* C3: after a dynamic add, the book is the fetched snapshot (sequence s) plus
\* the buffered diffs of sequence > s in arrival order; buffered diffs of
\* sequence <= s are not applied, and the snapshot sequence is s.
C3_EndToEndDynamicAdd ==
  \A p \in TrackedPairs :
    Drained(p) =>
      order_books[p].book = ReplayDiffs(hist.fetched, hist.buffered, hist.fetched.snapshot_uid)

NewerThan(s, d) == d.update_id > s

\* the levels a sequence of rows leaves on an empty side
Levels(rows) == {rows[i] : i \in {j \in 1..Len(rows) : rows[j][2] > 0}}

\* C4: after the task handled a snapshot of sequence s, the book has snapshot
\* sequence s and holds the snapshot's levels overwritten, in arrival order,
\* by exactly the window's diffs of sequence > s (with one price level: the
\* last such diff decides, the snapshot does when there is none).
C4_SnapshotReplay ==
  \A p \in TrackedPairs :
    (ev.kind = "apply_snapshot" /\ ev.pair = p) =>
      LET w == past_diffs_windows[p].q
          kept == SelectSeq(w, LAMBDA d : NewerThan(ev.uid, d))
          book == order_books[p].book
      IN /\ book.snapshot_uid = ev.uid
         /\ book.asks = {}
         /\ book.bids = IF kept = <<>> THEN Levels(ev.rows)
                        ELSE Levels(kept[Len(kept)].bids)

\* C4 witness: a snapshot was handled while the window held a newer diff
\* followed by an older one
C4_Witness ==
  /\ ev.kind = "apply_snapshot"
  /\ Len(past_diffs_windows[ev.pair].q) = 2
  /\ past_diffs_windows[ev.pair].q[1].update_id > ev.uid
  /\ past_diffs_windows[ev.pair].q[2].update_id <= ev.uid
  /\ order_books[ev.pair].book.bids # Levels(ev.rows)

\* p has an entry in self._tracking_tasks
HasTask(p) == \E t \in BagToSet(tasks) : t.pair = p /\ t.mapped

\* C5: whenever remove_trading_pair(p) returns True, p has no entry in the
\* books, the queues, the tasks, the past-diffs windows, the saved-message
\* buffers, the per-pair metrics or the list of trading pairs.
C5_RemovalZeroResidue ==
  \A p \in Pairs :
    (ev.kind = "remove_return" /\ ev.pair = p /\ ev.ret) =>
      /\ ~order_books[p].present
      /\ ~tracking_message_queues[p].present
      /\ ~HasTask(p)
      /\ ~past_diffs_windows[p].present
      /\ ~saved_message_queues[p].present
      /\ p \notin per_pair_metrics
      /\ ~InList(p, trading_pairs)

\* C6: when _init_order_books sets the ready event, every pair of the list of
\* trading pairs has a book, a queue and a task, whatever remove_trading_pair
\* calls ran during the startup loop.
C6_ReadyOnlyWhenAllActive ==
  ev.kind = "init_ready" =>
    \A i \in 1..Len(trading_pairs) :
      /\ order_books[trading_pairs[i]].present
      /\ tracking_message_queues[trading_pairs[i]].present
      /\ HasTask(trading_pairs[i])

\* C7: when add_trading_pair(p) ends with an exception raised after the
\* subscription succeeded, it returns False and p has no book, no queue and
\* no task entry.
C7_AddRollback ==
  \A p \in Pairs :
    (ev.kind = "add_return" /\ ev.pair = p /\ ev.why = "fetch_raised") =>
      /\ ~ev.ret
      /\ ~order_books[p].present
      /\ ~tracking_message_queues[p].present
      /\ ~HasTask(p)

\* C7 witness: the rollback ran and had a task to cancel
C7_Witness ==
  /\ ev.kind = "add_return" /\ ev.why = "fetch_raised"
  /\ \E t \in BagToSet(tasks) : t.pair = ev.pair /\ t.st = "cancelling" /\ ~t.mapped

\* C8: when subscribe_to_trading_pair returns false, add_trading_pair(p)
\* returns False, the tracker's books, queues, tasks, windows, buffers, metrics
\* and list of trading pairs are what they were, and the call is over (no
\* fetch is issued).
C8_SubscribeFalseLeavesState ==
  [][\A r \in BagToSet(adds) :
       (ev'.kind = "add_return" /\ ev'.why = "subscribe_false" /\ ev'.pair = r.pair
          /\ adds' = adds (-) One(r)) =>
         /\ r.pc = "subscribe"
         /\ ~ev'.ret
         /\ order_books' = order_books
         /\ tracking_message_queues' = tracking_message_queues
         /\ tasks' = tasks
         /\ past_diffs_windows' = past_diffs_windows
         /\ saved_message_queues' = saved_message_queues
         /\ per_pair_metrics' = per_pair_metrics
         /\ trading_pairs' = trading_pairs]_vars

\* C8 witness: an add of a pair that is in no map and not in the list has
\* returned False on a refused subscription
C8_Witness ==
  /\ ev.kind = "add_return" /\ ev.why = "subscribe_false" /\ ~ev.ret
  /\ ~order_books[ev.pair].present
  /\ ~InList(ev.pair, trading_pairs)

\* C9: add_trading_pair(p) for a pair that has a book returns False at once:
\* no call stays in flight (subscribe is not called) and nothing changes.
C9_AlreadyTracked ==
  [][\A p \in Pairs :
       (order_books[p].present /\ AddTradingPairCall(p)) =>
         /\ ev' = RetEv("add_return", p, FALSE, "already_tracked")
         /\ adds' = adds
         /\ order_books' = order_books
         /\ tracking_message_queues' = tracking_message_queues
         /\ tasks' = tasks
         /\ past_diffs_windows' = past_diffs_windows
         /\ saved_message_queues' = saved_message_queues
         /\ per_pair_metrics' = per_pair_metrics
         /\ trading_pairs' = trading_pairs]_vars

\* C9 witness: an add of a tracked pair has returned False
C9_Witness ==
  /\ ev.kind = "add_return" /\ ev.why = "already_tracked" /\ ~ev.ret
  /\ order_books[ev.pair].present
  /\ HasTask(ev.pair)

\* C10: no add_trading_pair call is past its wait (subscribing or fetching)
\* unless the ready event has been set; no call is left waiting while the
\* event is set; and a call that returns True leaves a book, a queue and a
\* task for its pair.
C10_AddWaitsForReady ==
  /\ \A r \in BagToSet(adds) : r.pc \in {"woken", "subscribe", "fetch"} => ready_ever_set
  /\ \A r \in BagToSet(adds) : r.pc = "wait" => ~order_books_initialized
  /\ \A p \in Pairs :
       (ev.kind = "add_return" /\ ev.pair = p /\ ev.ret) =>
         /\ ready_ever_set
         /\ order_books[p].present
         /\ tracking_message_queues[p].present
         /\ HasTask(p)

\* C10 witness: a call that had to wait for the ready event has returned True
C10_Witness ==
  /\ ev.kind = "add_return" /\ ev.ret /\ ev.src = "waited"
  /\ order_books[ev.pair].present
  /\ HasTask(ev.pair)

\* C11: a cancellation delivered to an add_trading_pair or remove_trading_pair
\* call at one of its suspension points is re-raised to the caller: no call in
\* flight has caught it, and no call it was delivered to returns True or False.
C11_CancellationPropagated ==
  /\ \A r \in BagToSet(removes) : ~r.swallowed
  /\ ~(ev.kind \in {"add_return", "remove_return"} /\ ev.src = "cancel_swallowed")

\* C12: for a diff of a pair that has a message queue, the diff router drops
\* the diff exactly when its update id is lower than or equal to the book's
\* snapshot_uid: then the queue is unchanged and only total_diffs_rejected
\* goes up by one; otherwise the diff is not rejected.
C12_StaleDiffDropped ==
  [][\A p \in Pairs :
       (ev'.pair = p /\ ev'.kind \in {"diff_accepted", "diff_rejected"}) =>
         IF ev'.uid <= ev'.snap
           THEN /\ ev'.kind = "diff_rejected"
                /\ tracking_message_queues' = tracking_message_queues
                /\ metrics' = [metrics EXCEPT !.total_diffs_rejected = @ + 1]
           ELSE ev'.kind = "diff_accepted"]_vars

\* C13: a diff for a pair that has no message queue is appended to the pair's
\* saved-message buffer and total_diffs_queued goes up by one; no other
\* counter changes (it is neither rejected nor accepted), no per-pair metrics
\* entry is created, no queue or book is touched.
C13_NoQueueDiffBuffered ==
  [][\A p \in Pairs, u \in Seqs, c \in DiffContents :
       (~tracking_message_queues[p].present /\ OrderBookDiffRouter(p, u, c)) =>
         /\ ev'.kind = "diff_queued"
         /\ saved_message_queues'[p].present
         /\ Len(saved_message_queues'[p].q) >= 1
         /\ Len(saved_message_queues'[p].q) >= Len(saved_message_queues[p].q)
         /\ saved_message_queues'[p].q[Len(saved_message_queues'[p].q)] = DiffMsg(u, c[1], c[2])
         /\ metrics' = [metrics EXCEPT !.total_diffs_queued = @ + 1]
         /\ per_pair_metrics' = per_pair_metrics
         /\ tracking_message_queues' = tracking_message_queues
         /\ order_books' = order_books
         /\ tasks' = tasks]_vars

\* C13 witness: a diff was buffered for a pair without a queue and without a
\* per-pair metrics entry
C13_Witness ==
  /\ ev.kind = "diff_queued"
  /\ ~tracking_message_queues[ev.pair].present
  /\ saved_message_queues[ev.pair].present
  /\ saved_message_queues[ev.pair].q[Len(saved_message_queues[ev.pair].q)].update_id = ev.uid
  /\ metrics.total_diffs_queued >= 1
  /\ ev.pair \notin per_pair_metrics

\* C14: when the diff router accepts a diff for a pair it appends it to the
\* pair's message queue and total_diffs_processed goes up by one, and after
\* the step the per-pair metrics map has an entry for the pair, whatever
\* happened before (the pair may have been removed and added again).
C14_AcceptedDiffCounted ==
  [][\A p \in Pairs :
       (ev'.kind = "diff_accepted" /\ ev'.pair = p) =>
         /\ tracking_message_queues'[p].present
         /\ Len(tracking_message_queues'[p].q) = Len(tracking_message_queues[p].q) + 1
         /\ tracking_message_queues'[p].q[Len(tracking_message_queues'[p].q)].update_id = ev'.uid
         /\ metrics' = [metrics EXCEPT !.total_diffs_processed = @ + 1]
         /\ p \in per_pair_metrics']_vars

\* C15: the snapshot router appends a snapshot for a pair that has a message
\* queue to that queue whatever its update id, and total_snapshots_processed
\* goes up by one; a snapshot for a pair without a queue is neither queued nor
\* saved, and total_snapshots_rejected goes up by one.
C15_SnapshotRouted ==
  [][\A p \in Pairs, u \in Seqs, c \in SnapshotContents :
       OrderBookSnapshotRouter(p, u, c) =>
         IF tracking_message_queues[p].present
           THEN /\ tracking_message_queues' =
                     [tracking_message_queues EXCEPT ![p].q = Append(@, SnapshotMsg(u, c[1], c[2]))]
                /\ metrics' = [metrics EXCEPT !.total_snapshots_processed = @ + 1]
           ELSE /\ tracking_message_queues' = tracking_message_queues
                /\ saved_message_queues' = saved_message_queues
                /\ metrics' = [metrics EXCEPT !.total_snapshots_rejected = @ + 1]]_vars

\* C15 witness: a snapshot older than the pair's book was put on the queue
C15_Witness ==
  /\ ev.kind = "snapshot_accepted"
  /\ order_books[ev.pair].present
  /\ ev.uid < order_books[ev.pair].book.snapshot_uid
  /\ tracking_message_queues[ev.pair].q # <<>>
  /\ tracking_message_queues[ev.pair].q[Len(tracking_message_queues[ev.pair].q)].update_id = ev.uid
  /\ metrics.total_snapshots_processed >= 1

\* C16: a trade for a pair without a book is rejected: no book changes,
\* total_trades_rejected goes up by one and total_trades_processed does not;
\* a trade for a pair with a book sets that book's last trade, leaves the
\* message queues alone, and total_trades_processed goes up by one.
C16_TradeRouted ==
  [][\A p \in Pairs, price \in TradePrices :
       EmitTradeEventLoop(p, price) =>
         IF ~order_books[p].present
           THEN /\ order_books' = order_books
                /\ tasks' = tasks
                /\ tracking_message_queues' = tracking_message_queues
                /\ metrics' = [metrics EXCEPT !.total_trades_rejected = @ + 1]
           ELSE /\ order_books' = [order_books EXCEPT ![p].book.last_trade_price = price]
                /\ tracking_message_queues' = tracking_message_queues
                /\ metrics' = [metrics EXCEPT !.total_trades_processed = @ + 1]]_vars

\* C16 witness: a trade was applied to the book of a pair whose queue holds
\* a diff that is still waiting
C16_Witness ==
  /\ ev.kind = "trade_applied"
  /\ order_books[ev.pair].present
  /\ order_books[ev.pair].book.last_trade_price = ev.uid
  /\ tracking_message_queues[ev.pair].present
  /\ tracking_message_queues[ev.pair].q # <<>>
  /\ metrics.total_trades_processed >= 1

\* C17: per pair, the task takes the messages from the message queue in
\* exactly the order in which they were put on it (what was handled is a
\* prefix of what was enqueued, what waits in the queue is the rest, in
\* order), and the diff router puts the accepted diffs on the queue in the
\* order in which it took them from the diff stream.
C17_PerPairOrdering ==
  \A p \in TrackedPairs :
    LET done == Len(hist.handled)
        q == tracking_message_queues[p].q
    IN /\ done + Len(q) = Len(hist.enqueued)
       /\ \A i \in 1..done : hist.handled[i] = hist.enqueued[i].m
       /\ \A i \in 1..Len(q) : q[i] = hist.enqueued[done + i].m
       /\ \A i, j \in 1..Len(hist.enqueued) :
            (i < j /\ hist.enqueued[i].m.type = "DIFF" /\ hist.enqueued[j].m.type = "DIFF")
              => hist.enqueued[i].n < hist.enqueued[j].n

\* C17 witness: the task has applied two different diffs from the queue and
\* has a further message at hand
C17_Witness ==
  /\ Len(hist.handled) >= 2
  /\ hist.handled[1] # hist.handled[2]
  /\ hist.handled[1].type = "DIFF" /\ hist.handled[2].type = "DIFF"
  /\ ev.kind = "apply_diff" /\ ev.src = "queue"
  /\ \E t \in BagToSet(tasks) : t.st = "running"

\* C18: when applying a message raises an exception other than CancelledError
\* in a pair's task, the task is not ended (it sleeps, then goes on), the pair
\* keeps its book, its message queue and its task entry, no task fails, and
\* the messages put on the queue are still taken in the order they were put.
C18_ProcessingErrorKeepsPair ==
  /\ \A t \in BagToSet(tasks) : t.st # "failed"
  /\ \A p \in Pairs :
       (ev.kind = "apply_raised" /\ ev.pair = p) =>
         /\ order_books[p].present
         /\ tracking_message_queues[p].present
         /\ \E t \in BagToSet(tasks) : t.pair = p /\ t.mapped /\ t.att /\ t.st = "backoff"
  /\ \A p \in TrackedPairs :
       (hist.raised > 0) =>
         /\ HasTask(p)
         /\ Len(hist.handled) + Len(tracking_message_queues[p].q) = Len(hist.enqueued)
         /\ \A i \in 1..Len(hist.handled) : hist.handled[i] = hist.enqueued[i].m

\* C18 witness: after an exception, the pair's task (still in the task map)
\* has applied a diff taken from the queue
C18_Witness ==
  /\ hist.raised > 0
  /\ ev.kind = "apply_diff" /\ ev.src = "queue"
  /\ hist.handled[Len(hist.handled)].update_id = ev.uid
  /\ order_books[ev.pair].present
  /\ \E t \in BagToSet(tasks) : t.pair = ev.pair /\ t.mapped /\ t.st \in {"running", "blocked"}

\* C19: every change of a pair's book (levels, snapshot_uid, last trade) is
\* made by a step of the pair's _track_single_book task applying a message;
\* no step of the trade loop, the last-trade-price loop, the routers or
\* add_trading_pair / remove_trading_pair changes a book that stays in place.
C19_SingleWriter ==
  [][\A p \in Pairs :
       (/\ order_books[p].present
        /\ order_books'[p].present
        /\ order_books'[p].book # order_books[p].book) =>
         /\ ev'.pair = p
         /\ ev'.kind \in {"apply_diff", "apply_snapshot"}]_vars

\* C20: remove_trading_pair discards a pair's book and message queue only
\* after the pair's processing task has ended: when the call returns True, no
\* _track_single_book task of the pair that has started is still alive
\* (waiting for a message, applying one, or asleep after an error).
C20_RemoveAwaitsTask ==
  \A p \in Pairs :
    (ev.kind = "remove_return" /\ ev.pair = p /\ ev.ret) =>
      /\ ~tracking_message_queues[p].present
      /\ \A t \in BagToSet(tasks) :
           t.pair = p => t.st \notin {"blocked", "running", "backoff"}

\* C21: when unsubscribe_from_trading_pair returns False during
\* remove_trading_pair(p), the call still returns True and p has no book, no
\* message queue, no task entry, no past-diffs window, no saved-message buffer
\* and no per-pair metrics entry.
C21_UnsubscribeFalseStillCleans ==
  \A p \in Pairs :
    (ev.kind = "remove_return" /\ ev.pair = p /\ ev.why = "false") =>
      /\ ev.ret
      /\ ~order_books[p].present
      /\ ~tracking_message_queues[p].present
      /\ ~HasTask(p)
      /\ ~past_diffs_windows[p].present
      /\ ~saved_message_queues[p].present
      /\ p \notin per_pair_metrics

C23_RemoveNotTracked ==
  [][\A p \in Pairs :
       (~order_books[p].present /\ RemoveTradingPairCall(p)) =>
         /\ ev' = RetEv("remove_return", p, FALSE, "not_tracked")
         /\ removes' = removes
         /\ order_books' = order_books
         /\ tracking_message_queues' = tracking_message_queues
         /\ tasks' = tasks
         /\ past_diffs_windows' = past_diffs_windows
         /\ saved_message_queues' = saved_message_queues
         /\ per_pair_metrics' = per_pair_metrics
         /\ trading_pairs' = trading_pairs]_vars

\* C23 witness: a remove of a pair without a book has returned False while
\* the pair is in the pair list
C23_Witness ==
  /\ ev.kind = "remove_return" /\ ev.why = "not_tracked" /\ ~ev.ret
  /\ ~order_books[ev.pair].present
  /\ InList(ev.pair, trading_pairs)
  /\ removes = EmptyBag

\* ======================================================== order book data sources
\* KucoinAPIOrderBookDataSource, BybitPerpetualAPIOrderBookDataSource and
\* LambdaplexAPIOrderBookDataSource.  Every action is the code of one
\* coroutine between two of its suspension points.
Kinds == {"kucoin", "bybit", "lambdaplex"}
Markets == {"BTC-USDT", "ETH-USDT", "BTC-USD"}

\* bybit_perpetual_utils.is_linear_perpetual: the quote asset is USDT
is_linear_perpetual(m) == m \in {"BTC-USDT", "ETH-USDT"}

\* the loop that serves market m: Bybit picks the linear or the non-linear
\* WSAssistant (lines 376-377 and 433-434), the others have self._ws_assistant
ListenerOf(kind, m) ==
  IF kind = "bybit"
    THEN (IF is_linear_perpetual(m) THEN "linear" ELSE "non_linear")
    ELSE "ws"

\* bybit_perpetual_utils.get_linear_non_linear_split: the pairs of one category
SplitOf(pairs, n) == SelectSeq(pairs, LAMBDA m : ListenerOf("bybit", m) = n)

SeqToSet(q) == {q[i] : i \in 1..Len(q)}

\* OrderBookTrackerDataSource.add_trading_pair / remove_trading_pair
DsAddTradingPair(list, m) == IF InList(m, list) THEN list ELSE Append(list, m)
DsRemoveTradingPair(list, m) == IF InList(m, list) THEN ListRemove(list, m) ELSE list

\* a step of the data source: the tracker and the LatencyStats object stay
DsStep(d, e) ==
  /\ ds' = d
  /\ ev' = e
  /\ UNCHANGED tracker_vars
  /\ UNCHANGED stats

\* the connection of loop n is open
Connected(d, n) == d.listeners[n].pc \in {"subscribing", "processing", "pinging"}

\* ---- listen_for_subscriptions
\* Bybit lines 81-101: the configured pairs are split once and one loop is
\* started for each category that has pairs, with its part of the list as
\* argument.  The other data sources run the loop of the base class.
ListenForSubscriptions ==
  /\ ds.kind # "none"
  /\ \A n \in Listeners : ds.listeners[n].pc = "off"
  /\ LET started(n) == IF ds.kind = "bybit"
                         THEN n # "ws" /\ SplitOf(ds.trading_pairs, n) # <<>>
                         ELSE n = "ws"
         arg(n) == IF ds.kind = "bybit" THEN SplitOf(ds.trading_pairs, n) ELSE <<>>
     IN DsStep([ds EXCEPT !.listeners =
                  [n \in Listeners |->
                     IF started(n)
                       THEN [NoListener EXCEPT !.pc = "connecting", !.trading_pairs = arg(n)]
                       ELSE NoListener]],
               Ev("listening", ""))

\* Bybit lines 118-123: the websocket is connected and stored
ListenerConnected(n) ==
  /\ ds.listeners[n].pc = "connecting"
  /\ ds.listeners[n].gen < MaxConnects
  /\ DsStep([ds EXCEPT !.listeners[n].pc = "subscribing",
                       !.listeners[n].gen = @ + 1,
                       !.listeners[n].subscribed = {},
                       !.listeners[n].pings = 0,
                       !.ws[n] = ds.listeners[n].gen + 1],
            Ev("connected", n))

\* Bybit lines 118, 128-132: connecting raises; the loop sleeps 5 seconds
ListenerConnectRaises(n) ==
  /\ ds.listeners[n].pc = "connecting"
  /\ DsStep([ds EXCEPT !.listeners[n].pc = "sleeping"], Ev("listener_error", n))

\* the pairs the loop subscribes on a new connection: Bybit line 124 passes
\* the loop's argument, Kucoin lines 125-126 and Lambdaplex line 169 read
\* self._trading_pairs
ChannelsOf(d, n) ==
  IF d.kind = "bybit" THEN d.listeners[n].trading_pairs ELSE d.trading_pairs

\* Bybit lines 124 and 148-177, Kucoin lines 123-150: the subscriptions are
\* sent; the connection may already carry subscriptions that
\* subscribe_to_trading_pair sent on it
SubscribeChannels(d, n) ==
  [d EXCEPT !.listeners[n].pc = "processing",
            !.listeners[n].subscribed = @ \cup SeqToSet(ChannelsOf(d, n))]

ListenerSubscribed(n) ==
  /\ ds.listeners[n].pc = "subscribing"
  /\ DsStep(SubscribeChannels(ds, n),
            [Ev("channels_subscribed", n) EXCEPT !.rows = ChannelsOf(ds, n)])

\* Bybit lines 178-182 and 128-132: sending raises; the loop sleeps 5 seconds
ListenerSubscribeRaises(n) ==
  /\ ds.listeners[n].pc = "subscribing"
  /\ DsStep([ds EXCEPT !.listeners[n].pc = "sleeping"], Ev("listener_error", n))

\* Bybit lines 125-132: the connection is lost while messages are processed
ListenerProcessRaises(n) ==
  /\ ds.listeners[n].pc = "processing"
  /\ DsStep([ds EXCEPT !.listeners[n].pc = "sleeping"], Ev("listener_error", n))

\* Bybit lines 132-139: the sleep is over; the finally clause clears the
\* WSAssistant attribute and disconnects, the loop connects again
ListenerSlept(n) ==
  /\ ds.listeners[n].pc = "sleeping"
  /\ DsStep([ds EXCEPT !.listeners[n].pc = "connecting",
                       !.listeners[n].subscribed = {},
                       !.ws[n] = 0],
            Ev("disconnected", n))

\* ---- _process_websocket_messages
\* as ReadTimeout, but the timeout is an error like any other: the loop of
\* listen_for_subscriptions catches it and reconnects
ReadTimeout_Fatal(d, n) == [d EXCEPT !.listeners[n].pc = "sleeping"]

\* Kucoin lines 172-180, Bybit lines 187-189: asyncio.TimeoutError is caught
\* and a ping request is built
ReadTimeout(d, n) == [d EXCEPT !.listeners[n].pc = "pinging"]

ListenerReadTimeout(n) ==
  /\ ds.kind \in {"kucoin", "bybit"}
  /\ ds.listeners[n].pc = "processing"
  /\ ds.listeners[n].pings < MaxPings
  /\ DsStep(ReadTimeout(ds, n), Ev("read_timeout", n))

\* Kucoin line 181, Bybit line 190: the ping is sent and the while loop
\* processes messages again
ListenerPingSent(n) ==
  /\ ds.listeners[n].pc = "pinging"
  /\ DsStep([ds EXCEPT !.listeners[n].pc = "processing",
                       !.listeners[n].pings = @ + 1],
            Ev("ping_sent", n))

\* sending the ping raises: the exception leaves _process_websocket_messages
ListenerPingRaises(n) ==
  /\ ds.listeners[n].pc = "pinging"
  /\ DsStep([ds EXCEPT !.listeners[n].pc = "sleeping"], Ev("listener_error", n))

\* ---- subscribe_to_trading_pair / unsubscribe_from_trading_pair
Ops == {"subscribe", "unsubscribe"}
ReturnOf(op) == IF op = "subscribe" THEN "subscribe_return" ELSE "unsubscribe_return"
RaiseOf(op) == IF op = "subscribe" THEN "subscribe_raise" ELSE "unsubscribe_raise"

\* Kucoin lines 207-214 / 256-263, Bybit lines 376-388 / 433-444, Lambdaplex
\* lines 75-84 / 94-103: the checks before the first await.  Bybit and
\* Lambdaplex keep the WSAssistant they read here; Kucoin reads the attribute
\* again when it sends.
DsCallEnter(d, op, m) ==
  LET n == ListenerOf(d.kind, m)
      d1 == [d EXCEPT !.n_calls = @ + 1] IN
  IF d.ws[n] = 0
    THEN [d |-> d1, e |-> RetEv(ReturnOf(op), m, FALSE, "not_connected")]
  ELSE IF d.kind = "lambdaplex" /\ (op = "subscribe") = InList(m, d.trading_pairs)
    THEN [d |-> d1, e |-> RetEv(ReturnOf(op), m, TRUE, "ignored")]
  ELSE [d |-> [d1 EXCEPT !.calls = @ \cup {[op |-> op, pair |-> m, pc |-> "lookup",
                                             ws |-> IF d.kind = "kucoin" THEN 0 ELSE d.ws[n]]}],
        e |-> Ev("call", m)]

DsCall(op, m) ==
  /\ ds.kind # "none"
  /\ ds.n_calls < MaxDsCalls
  /\ \A c \in ds.calls : c.pair # m
  /\ LET r == DsCallEnter(ds, op, m) IN DsStep(r.d, r.e)

\* exchange_symbol_associated_to_pair came back
DsCallLookupReturns(c) ==
  /\ c \in ds.calls /\ c.pc = "lookup"
  /\ DsStep([ds EXCEPT !.calls = (@ \ {c}) \cup {[c EXCEPT !.pc = "send"]}], Ev("lookup", c.pair))

\* as DsCallFailed, but the pair was added to the list before the requests
\* were sent
DsCallFailed_KeepsPair(d, c, why) ==
  [d |-> [d EXCEPT !.calls = @ \ {c},
                   !.trading_pairs = IF c.op = "subscribe" THEN DsAddTradingPair(@, c.pair) ELSE @],
   e |-> RetEv(ReturnOf(c.op), c.pair, FALSE, why)]

\* exchange_symbol_associated_to_pair or a send raised: "except Exception:
\* return False"
DsCallFailed(d, c, why) ==
  [d |-> [d EXCEPT !.calls = @ \ {c}], e |-> RetEv(ReturnOf(c.op), c.pair, FALSE, why)]

DsCallLookupRaises(c) ==
  /\ c \in ds.calls /\ c.pc = "lookup"
  /\ LET r == DsCallFailed(ds, c, "lookup_error") IN DsStep(r.d, r.e)

\* the WSAssistant the call sends on
SendTarget(d, c) == IF d.kind = "kucoin" THEN d.ws[ListenerOf(d.kind, c.pair)] ELSE c.ws

\* Kucoin lines 234-240 / 283-289, Bybit lines 411-417 / 456-460, Lambdaplex
\* lines 84-85 / 103-104: the requests were sent; the pair is added to or
\* removed from the list and the call returns True
DsCallSent(d, c) ==
  LET n == ListenerOf(d.kind, c.pair)
      sub == IF c.op = "subscribe" THEN d.listeners[n].subscribed \cup {c.pair}
                                   ELSE d.listeners[n].subscribed \ {c.pair}
  IN [d |-> [d EXCEPT !.calls = @ \ {c},
                      !.trading_pairs = IF c.op = "subscribe" THEN DsAddTradingPair(@, c.pair)
                                                              ELSE DsRemoveTradingPair(@, c.pair),
                      !.listeners[n].subscribed = IF Connected(d, n) THEN sub ELSE @],
      e |-> RetEv(ReturnOf(c.op), c.pair, TRUE, "sent")]

\* a send succeeds only on the connection the loop currently holds
DsCallSendReturns(c) ==
  /\ c \in ds.calls /\ c.pc = "send"
  /\ LET n == ListenerOf(ds.kind, c.pair) IN
       /\ SendTarget(ds, c) # 0
       /\ SendTarget(ds, c) = ds.listeners[n].gen
       /\ ds.listeners[n].pc \in {"subscribing", "processing", "pinging", "sleeping"}
  /\ LET r == DsCallSent(ds, c) IN DsStep(r.d, r.e)

\* a send raises (closed connection, or the attribute is None by now)
DsCallSendRaises(c) ==
  /\ c \in ds.calls /\ c.pc = "send"
  /\ LET r == DsCallFailed(ds, c, "send_error") IN DsStep(r.d, r.e)

\* the caller is cancelled at an await: "except asyncio.CancelledError: raise"
DsCallCancelled(c) ==
  /\ c \in ds.calls
  /\ DsStep([ds EXCEPT !.calls = @ \ {c}], RetEv(RaiseOf(c.op), c.pair, FALSE, "cancelled"))

\* ---- One data source of any of the three kinds, with one or two configured
\* ---- markets, its listening loops and dynamic subscriptions, one call at a time.
DsConfigs == {<<"BTC-USDT">>, <<"BTC-USDT", "BTC-USD">>}

InitDs ==
  /\ TrackerInit(<<>>)
  /\ stats = NewLatencyStats(SAMPLE_RATE)
  /\ \E k \in Kinds, pairs \in DsConfigs : ds = NewDataSource(k, pairs)

NextDs ==
  \/ ListenForSubscriptions
  \/ \E n \in Listeners : ListenerConnected(n)
  \/ \E n \in Listeners : ListenerConnectRaises(n)
  \/ \E n \in Listeners : ListenerSubscribed(n)
  \/ \E n \in Listeners : ListenerSubscribeRaises(n)
  \/ \E n \in Listeners : ListenerProcessRaises(n)
  \/ \E n \in Listeners : ListenerSlept(n)
  \/ \E n \in Listeners : ListenerReadTimeout(n)
  \/ \E n \in Listeners : ListenerPingSent(n)
  \/ \E n \in Listeners : ListenerPingRaises(n)
  \/ \E op \in Ops, m \in Markets : ds.calls = {} /\ DsCall(op, m)
  \/ \E c \in ds.calls : DsCallLookupReturns(c)
  \/ \E c \in ds.calls : DsCallLookupRaises(c)
  \/ \E c \in ds.calls : DsCallSendReturns(c)
  \/ \E c \in ds.calls : DsCallSendRaises(c)
  \/ \E c \in ds.calls : DsCallCancelled(c)

SpecDs == InitDs /\ [][NextDs]_vars

\* the markets of the tracked list that the connection of loop n serves
TrackedOn(d, n) == {m \in SeqToSet(d.trading_pairs) : ListenerOf(d.kind, m) = n}

\* C24: whenever a listening loop has reconnected and sent the subscriptions
\* of the new connection, the markets subscribed on that connection are
\* exactly the markets of the data source's tracked list that this
\* connection serves.
C24_ResubscribesTrackedSet ==
  \A n \in Listeners :
    (ev.kind = "channels_subscribed" /\ ev.pair = n /\ ds.listeners[n].gen > 1) =>
      ds.listeners[n].subscribed = TrackedOn(ds, n)

\* C25: subscribe_to_trading_pair and unsubscribe_from_trading_pair of the
\* three data sources return False when the websocket is not connected, when
\* the symbol lookup raises and when a send raises, and leave the list of
\* trading pairs as it was; every step that changes the list is the return of
\* True by a call, which added (subscribe) or removed (unsubscribe) its pair.
C25_FailureReturnsFalse ==
  [][/\ \A op \in Ops, m \in Markets :
          (ds.ws[ListenerOf(ds.kind, m)] = 0 /\ DsCall(op, m)) =>
             /\ ev' = RetEv(ReturnOf(op), m, FALSE, "not_connected")
             /\ ds'.trading_pairs = ds.trading_pairs
     /\ \A c \in ds.calls :
          (DsCallLookupRaises(c) \/ DsCallSendRaises(c)) =>
             /\ ev'.kind = ReturnOf(c.op) /\ ev'.pair = c.pair /\ ~ev'.ret
             /\ ds'.trading_pairs = ds.trading_pairs
     /\ ds'.trading_pairs # ds.trading_pairs =>
          /\ ev'.kind \in {"subscribe_return", "unsubscribe_return"} /\ ev'.ret
          /\ ds'.trading_pairs =
               IF ev'.kind = "subscribe_return"
                 THEN Append(ds.trading_pairs, ev'.pair)
                 ELSE ListRemove(ds.trading_pairs, ev'.pair)]_vars

\* a subscribe call whose send raised has returned False and its pair is not
\* in the list
C25_Witness ==
  /\ ev.kind = "subscribe_return" /\ ev.why = "send_error" /\ ~ev.ret
  /\ ~InList(ev.pair, ds.trading_pairs)
  /\ ds.n_calls > 0 /\ ds.calls = {}

\* ============================================ Bybit perpetual: websocket deltas
\* The order book topic of Bybit sends rows [price, size] of strings; a row of
\* size "0" tells that the level is gone.
RawPrices == {"1", "2"}
RawSizes == {"0", "0.00", "3"}
RawRows == {<<p, s>> : p \in RawPrices, s \in RawSizes}

\* float(s) for the strings of the model
Float(s) ==
  CASE s = "0" -> 0 [] s = "0.00" -> 0 [] s = "1" -> 1 [] s = "2" -> 2 [] s = "3" -> 3

\* the lists of at most n rows
RowLists(n) == UNION {[1..k -> RawRows] : k \in 0..n}

\* the "data" of a message: "b" and "a", or "b" alone
RawData ==
  {[b |-> bs, a |-> as] : bs \in RowLists(2), as \in RowLists(1)}
    \cup {[b |-> bs] : bs \in RowLists(2)}

RawMessages == {[type |-> t, ts |-> 1, data |-> d] : t \in {"delta", "snapshot"}, d \in RawData}

\* snapshot.get(key, [])
GetOr(data, key) == IF key \in DOMAIN data THEN data[key] ELSE <<>>

\* lines 338-344 and 347-353: the rows as (float, float), a row whose size is
\* 0 is skipped
RECURSIVE WsRows(_)
WsRows(rows) ==
  IF rows = <<>> THEN <<>>
  ELSE LET price == Float(Head(rows)[1])
           size == Float(Head(rows)[2])
       IN IF size = 0 THEN WsRows(Tail(rows))
          ELSE << <<price, size>> >> \o WsRows(Tail(rows))

\* BybitPerpetualAPIOrderBookDataSource._get_bids_and_asks_from_ws_msg_data
GetBidsAndAsksFromWsMsgData(data) == <<WsRows(GetOr(data, "b")), WsRows(GetOr(data, "a"))>>

\* _parse_order_book_diff_message: the message put on the queue, if any; the
\* update id is derived from the timestamp
ParseOrderBookDiffMessage(raw) ==
  IF raw.type = "delta"
    THEN LET ba == GetBidsAndAsksFromWsMsgData(raw.data)
         IN DiffMsg(raw.ts, ba[1], ba[2])
    ELSE NoMsg

BybitParseOrderBookDiffMessage ==
  /\ ds.kind = "bybit"
  /\ ds.raw.type # "none"
  /\ ds.diff.type = "none"
  /\ DsStep([ds EXCEPT !.diff = ParseOrderBookDiffMessage(ds.raw)], Ev("diff_parsed", ""))

\* ---- One websocket message of the order book topic, parsed once.
InitBybitDiff ==
  /\ TrackerInit(<<>>)
  /\ stats = NewLatencyStats(SAMPLE_RATE)
  /\ \E raw \in RawMessages : ds = [NewDataSource("bybit", <<"BTC-USDT">>) EXCEPT !.raw = raw]

NextBybitDiff == BybitParseOrderBookDiffMessage

SpecBybitDiff == InitBybitDiff /\ [][NextBybitDiff]_vars

\* the rows of a list that report size 0, as (price, 0)
ZeroRows(rows) == {<<Float(rows[i][1]), 0>> : i \in {j \in 1..Len(rows) : Float(rows[j][2]) = 0}}

\* C26: every level that a websocket delta reports with size 0 is a row of the
\* bids (for "b") or of the asks (for "a") of the diff message that the Bybit
\* data source hands on.
C26_ZeroSizeForwarded ==
  ds.diff.type = "DIFF" =>
    /\ ZeroRows(GetOr(ds.raw.data, "b")) \subseteq SeqToSet(ds.diff.bids)
    /\ ZeroRows(GetOr(ds.raw.data, "a")) \subseteq SeqToSet(ds.diff.asks)

\* C27: in the Kucoin and Bybit data sources a read timeout while messages are
\* processed leaves the loop on its connection with its subscriptions and
\* makes it send a ping; once the ping is sent, which is the only way the
\* number of pings of a connection grows, and by one, the loop processes
\* messages again on the same connection with the same subscriptions.
C27_TimeoutPingsAndResumes ==
  [][\A n \in Listeners :
       LET l == ds.listeners[n]
           l2 == ds'.listeners[n]
           same == l2.gen = l.gen /\ ds'.ws[n] = ds.ws[n] /\ l2.subscribed = l.subscribed
       IN /\ (l.pc = "processing" /\ ev'.kind = "read_timeout" /\ ev'.pair = n) =>
               l2.pc = "pinging" /\ l2.pings = l.pings /\ same
          /\ (l.pc = "pinging" /\ l2.pc = "processing") =>
               l2.pings = l.pings + 1 /\ same
          /\ l2.pings # l.pings =>
               \/ l.pc = "pinging" /\ l2.pc = "processing" /\ l2.pings = l.pings + 1
               \/ l.pc = "connecting" /\ l2.pings = 0]_vars

\* after a read timeout the ping was sent and the loop processes messages on
\* its first connection, with its subscriptions
C27_Witness ==
  /\ ds.kind \in {"kucoin", "bybit"}
  /\ ev.kind = "ping_sent"
  /\ \E n \in Listeners :
       /\ ev.pair = n
       /\ ds.listeners[n].pc = "processing" /\ ds.listeners[n].pings = 1
       /\ ds.listeners[n].gen = 1 /\ ds.ws[n] = 1
       /\ ds.listeners[n].subscribed # {}

\* ===================================== exceptions in the routers and the trade loop
RouterLoops == {"diff", "snapshot", "trade"}

\* the steps in which a loop handles one event
HandledBy(l) ==
  IF l = "diff" THEN {"diff_queued", "diff_rejected", "diff_accepted"}
  ELSE IF l = "snapshot" THEN {"snapshot_rejected", "snapshot_accepted"}
  ELSE {"trade_rejected", "trade_applied"}

\* as RouterFail, but the exception ends the loop's task
RouterFail_EndsLoop(s, l) ==
  [s EXCEPT !.routers.alive = FALSE,
            !.routers.failed = @ \cup {l},
            !.n_msgs = @ + 1,
            !.ev = Ev("router_raised", l)]

\* lines 585-591, 630-632 and 732-738: an exception raised while loop l
\* handles an event is caught and logged, and the loop sleeps 5 seconds
RouterFail(s, l) ==
  [s EXCEPT !.routers.backoff = @ \cup {l},
            !.routers.failed = @ \cup {l},
            !.n_msgs = @ + 1,
            !.ev = Ev("router_raised", l)]

\* the loop took an event from its stream and handling it raised
RouterRaises(l) ==
  /\ ~Running
  /\ routers.alive /\ l \notin routers.backoff
  /\ l \in {"snapshot", "trade"} => routers.snapshot_ready
  /\ Commit(RouterFail(S, l))

\* lines 591, 632 and 738: asyncio.sleep(5.0) is over, "while True" goes on
RouterSlept(l) ==
  /\ ~Running
  /\ routers.alive /\ l \in routers.backoff
  /\ Commit([S EXCEPT !.routers.backoff = @ \ {l}, !.ev = Ev("router_resumed", l)])

\* ---- One dynamically added pair with the three streams, where handling an
\* ---- event may raise and stop() cancels the loops.
NextRouterErr ==
  \/ init_task.pc = "none" /\ start
  \/ routers.alive /\ stop
  \/ InitOrderBooksBegin
  \/ \E p \in TrackedPairs : adds = EmptyBag /\ ~order_books[p].present /\ AddTradingPairCall(p)
  \/ \E r \in BagToSet(adds) : AddTradingPairWoken(r)
  \/ \E r \in BagToSet(adds) : AddTradingPairSubscribeReturns(r, "true")
  \/ \E r \in BagToSet(adds), c \in SnapshotContents : AddTradingPairFetchReturns(r, 1, c)
  \/ \E t \in BagToSet(tasks) : TrackSingleBookStart(t)
  \/ \E t \in BagToSet(tasks) : TrackSingleBookTurn(t)
  \/ \E t \in BagToSet(tasks) : TrackSingleBookWake(t)
  \/ \E t \in BagToSet(tasks) : TrackSingleBookCancelled(t)
  \/ \E p \in TrackedPairs, c \in DiffContents :
       n_msgs < MaxMsgs /\ OrderBookDiffRouter(p, 2, c)
  \/ \E p \in TrackedPairs, c \in SnapshotContents :
       n_msgs < MaxMsgs /\ OrderBookSnapshotRouter(p, 2, c)
  \/ \E p \in TrackedPairs, price \in TradePrices :
       n_msgs < MaxMsgs /\ EmitTradeEventLoop(p, price)
  \/ \E l \in RouterLoops : n_msgs < MaxMsgs /\ RouterRaises(l)
  \/ \E l \in RouterLoops : RouterSlept(l)

SpecRouterErr == InitData /\ [][NextRouterErr]_vars

\* C28: an exception raised while the diff router, the snapshot router or the
\* trade loop handles an event leaves the loop's task alive and puts the loop
\* in its back-off, during which it handles no event and after which it is
\* back in its loop; once stop() has cancelled the loops, none of them is in
\* a back-off and no event is handled any more.
C28_RouterFailurePolicy ==
  [][/\ \A l \in RouterLoops :
          /\ RouterRaises(l) =>
               routers'.alive /\ l \in routers'.backoff /\ ev'.kind = "router_raised"
          /\ l \in routers.backoff => ev'.kind \notin HandledBy(l)
          /\ (l \in routers.backoff /\ RouterSlept(l)) =>
               routers'.alive /\ l \notin routers'.backoff
          /\ (l \in routers.backoff /\ l \notin routers'.backoff) =>
               ev'.kind \in {"router_resumed", "none"} \/ ~routers'.alive
     /\ (routers.alive /\ stop) => ~routers'.alive /\ routers'.backoff = {}
     /\ ~routers.alive =>
          /\ n_msgs' = n_msgs
          /\ \A l \in RouterLoops : ev'.kind \notin HandledBy(l) \cup {"router_raised"}]_vars

\* the diff router has caught an exception, has slept and has then routed a
\* diff to the pair's queue
C28_Witness ==
  /\ ev.kind = "diff_accepted"
  /\ "diff" \in routers.failed /\ "diff" \notin routers.backoff
  /\ routers.alive

\* ================================================================ LatencyStats
\* the latencies passed to record, in milliseconds
Latencies == {-1, 1, 2}

\* as Record, but the sample counter is not reset when a sample is taken
Record_NoReset(st, latency_ms) ==
  LET c == st.sample_counter + 1
      st1 == [st EXCEPT !.count = @ + 1,
                        !.sample_counter = c,
                        !.min_ms = IF latency_ms < @ THEN latency_ms ELSE @,
                        !.max_ms = IF latency_ms > @ THEN latency_ms ELSE @,
                        !.recorded = Append(@, latency_ms)]
  IN IF c >= st.SAMPLE_RATE
       THEN [st1 EXCEPT !.total_ms = @ + latency_ms * st.SAMPLE_RATE,
                        !.recent_samples = DequeAppend(@, latency_ms, ROLLING_WINDOW_MAXLEN)]
       ELSE st1

\* LatencyStats.record, lines 43-63
Record(st, latency_ms) ==
  LET c == st.sample_counter + 1
      st1 == [st EXCEPT !.count = @ + 1,
                        !.sample_counter = c,
                        !.min_ms = IF latency_ms < @ THEN latency_ms ELSE @,
                        !.max_ms = IF latency_ms > @ THEN latency_ms ELSE @,
                        !.recorded = Append(@, latency_ms)]
  IN IF c >= st.SAMPLE_RATE
       THEN [st1 EXCEPT !.sample_counter = 0,
                        !.total_ms = @ + latency_ms * st.SAMPLE_RATE,
                        !.recent_samples = DequeAppend(@, latency_ms, ROLLING_WINDOW_MAXLEN)]
       ELSE st1

LatencyStatsRecord(latency_ms) ==
  /\ stats.count < MaxRecords
  /\ stats' = Record(stats, latency_ms)
  /\ UNCHANGED tracker_vars
  /\ UNCHANGED <<ev, ds>>

\* LatencyStats.recent_samples_count
recent_samples_count(st) == Len(st.recent_samples)

\* ---- One LatencyStats object with a sample rate that stays, and the calls
\* ---- of record.
InitStats ==
  /\ TrackerInit(<<>>)
  /\ ds = NewDataSource("none", <<>>)
  /\ \E rate \in 1..MaxRate : stats = NewLatencyStats(rate)

NextStats == \E latency_ms \in Latencies : LatencyStatsRecord(latency_ms)

SpecStats == InitStats /\ [][NextStats]_vars

MinOf(a, b) == IF a < b THEN a ELSE b

\* C29: after N calls of record with sample rate R and window capacity W,
\* count is N, the window holds min(N div R, W) samples and the sample
\* counter is below R.
C29_SamplingPreservesCount ==
  LET N == Len(stats.recorded) IN
  /\ stats.count = N
  /\ recent_samples_count(stats) = MinOf(N \div stats.SAMPLE_RATE, ROLLING_WINDOW_MAXLEN)
  /\ stats.sample_counter < stats.SAMPLE_RATE

\* six calls with sample rate 2: three samples were taken, which is more
\* than the window holds, and the window is full
C29_Witness ==
  /\ stats.SAMPLE_RATE = 2 /\ stats.count = 6
  /\ stats.count \div stats.SAMPLE_RATE > ROLLING_WINDOW_MAXLEN
  /\ recent_samples_count(stats) = ROLLING_WINDOW_MAXLEN
  /\ stats.sample_counter = 0

RECURSIVE MinOfSeq(_)
MinOfSeq(q) == IF Len(q) = 1 THEN q[1] ELSE MinOf(q[1], MinOfSeq(Tail(q)))

RECURSIVE MaxOfSeq(_)
MaxOfSeq(q) == IF Len(q) = 1 THEN q[1] ELSE -MinOf(-q[1], -MaxOfSeq(Tail(q)))

\* C30: once record was called, min_ms is the least and max_ms the greatest
\* of all the values passed to it, whatever the sample rate.
C30_MinMaxOfAllValues ==
  stats.count > 0 =>
    /\ stats.min_ms = MinOfSeq(stats.recorded)
    /\ stats.max_ms = MaxOfSeq(stats.recorded)

\* ---- One configured pair across start() / stop() / start(): the startup
\* ---- task, the pair's tasks and the four consumers of market data.
NextRestart ==
  \/ start
  \/ stop
  \/ InitOrderBooksBegin
  \/ \E c \in SnapshotContents : InitOrderBooksFetched(1, c)
  \/ InitOrderBooksSlept
  \/ \E t \in BagToSet(tasks) : TrackSingleBookStart(t)
  \/ \E t \in BagToSet(tasks) : TrackSingleBookTurn(t)
  \/ \E t \in BagToSet(tasks) : TrackSingleBookWake(t)
  \/ \E t \in BagToSet(tasks) : TrackSingleBookCancelled(t)
  \/ \E p \in TrackedPairs, c \in DiffContents :
       n_msgs < MaxMsgs /\ OrderBookDiffRouter(p, 2, c)
  \/ \E p \in TrackedPairs, c \in SnapshotContents :
       n_msgs < MaxMsgs /\ OrderBookSnapshotRouter(p, 1, c)
  \/ \E p \in TrackedPairs, price \in TradePrices :
       n_msgs < MaxMsgs /\ EmitTradeEventLoop(p, price)
  \/ \E p \in TrackedPairs, price \in TradePrices :
       n_msgs < MaxMsgs /\ UpdateLastTradePricesLoop(p, price)

SpecRestart == InitOne /\ [][NextRestart]_vars

\* the last n elements of a sequence
LastN(q, n) == SubSeq(q, Len(q) - n + 1, Len(q))

\* C31: the saved-message buffer of a pair never holds more than its capacity
\* (1000 in the source) and the past-diffs window never more than
\* PAST_DIFF_WINDOW_SIZE diffs, and the window holds exactly the most recent
\* min(PAST_DIFF_WINDOW_SIZE, k) of the k diffs applied since the pair's
\* processing task was created (by startup or by add_trading_pair), in the
\* order in which they were applied.
C31_BoundedBuffers ==
  \A p \in TrackedPairs :
    /\ Len(saved_message_queues[p].q) <= SAVED_MESSAGES_MAXLEN
    /\ Len(past_diffs_windows[p].q) <= PAST_DIFF_WINDOW_SIZE
    /\ LET k == Len(hist.applied) - hist.since
       IN past_diffs_windows[p].q = LastN(hist.applied, MinOf(PAST_DIFF_WINDOW_SIZE, k))

\* the tasks of pair p, among the tasks ts, on which cancel() has not been
\* called and which have not ended
LiveTasks(ts, p) ==
  SumOver({t \in BagToSet(ts) : t.pair = p /\ t.st \in {"new", "blocked", "running", "backoff"}}, ts)

\* C32: a pair never has more than one processing task that has not been
\* cancelled, and a step with which add_trading_pair(p) returns leaves the
\* book, the message queue and the task entry of a pair that had all three
\* as they were, whatever the interleaving of start, add_trading_pair and
\* remove_trading_pair (two overlapping adds of one pair, an add of a
\* configured pair called before startup is over).
C32_OneTaskPerPair ==
  [][\A p \in Pairs :
       /\ LiveTasks(tasks', p) <= 1
       /\ (/\ order_books[p].present /\ tracking_message_queues[p].present /\ HasTask(p)
           /\ ev'.kind = "add_return" /\ ev'.pair = p) =>
            /\ order_books'[p] = order_books[p]
            /\ tracking_message_queues'[p] = tracking_message_queues[p]
            /\ tasks' = tasks]_vars

\* C33: whenever no remove_trading_pair(p) call is in flight and p has a
\* message queue (so that the routers put the events of p on it), a
\* processing task of p that has not been cancelled takes its messages from
\* that queue, or is about to start and will; also after a remove_trading_pair
\* that returned False, after stop(), and after stop() followed by start().
C33_AcceptingImpliesConsuming ==
  \A p \in Pairs :
    (/\ \A r \in BagToSet(removes) : r.pair # p
     /\ tracking_message_queues[p].present) =>
      \E t \in BagToSet(tasks) :
        /\ t.pair = p
        /\ \/ t.st = "new"
           \/ t.st \in {"blocked", "running", "backoff"} /\ t.att

\* p has no entry in the books, the message queues, the task map, the
\* past-diffs windows, the saved-message buffers and the per-pair metrics
NoResidue(p) ==
  /\ ~order_books[p].present
  /\ ~tracking_message_queues[p].present
  /\ ~HasTask(p)
  /\ ~past_diffs_windows[p].present
  /\ ~saved_message_queues[p].present
  /\ p \notin per_pair_metrics

\* C34: once remove_trading_pair(p) has returned True and left no entry for
\* p, a step that is not part of an add_trading_pair call (an event of p
\* arriving at a router) leaves p without any entry: checked for the step
\* that follows the return.
C34_NoResidueReappears ==
  [][\A p \in Pairs :
       (/\ ev.kind = "remove_return" /\ ev.pair = p /\ ev.ret
        /\ NoResidue(p)
        /\ adds = EmptyBag /\ adds' = EmptyBag) =>
         NoResidue(p)']_vars

\* ---- One pair added at run time whose initial book may fail to arrive,
\* ---- while its diffs come in; the add is then tried again.
NextAddFail ==
  \/ init_task.pc = "none" /\ start
  \/ InitOrderBooksBegin
  \/ \E p \in TrackedPairs : adds = EmptyBag /\ ~order_books[p].present /\ AddTradingPairCall(p)
  \/ \E r \in BagToSet(adds) : AddTradingPairWoken(r)
  \/ \E r \in BagToSet(adds) : AddTradingPairSubscribeReturns(r, "true")
  \/ \E r \in BagToSet(adds), c \in SnapshotContents : AddTradingPairFetchReturns(r, 1, c)
  \/ \E r \in BagToSet(adds) : hist.failed_at = 0 /\ AddTradingPairFetchRaises(r)
  \/ \E t \in BagToSet(tasks) : TrackSingleBookStart(t)
  \/ \E t \in BagToSet(tasks) : TrackSingleBookTurn(t)
  \/ \E t \in BagToSet(tasks) : TrackSingleBookWake(t)
  \/ \E p \in TrackedPairs, c \in DiffContents :
       n_msgs < MaxMsgs /\ OrderBookDiffRouter(p, 2, c)

SpecAddFail == InitData /\ [][NextAddFail]_vars

\* C35: when add_trading_pair(p) returns False because get_new_order_book
\* raised, p is not in the list of trading pairs and has no book, no message
\* queue and no task entry; and no diff that was buffered for p before that
\* return is applied later from the saved-message buffer (the buffer's head
\* is a diff that was buffered after the failed call).
C35_FailedAddLeavesNothing ==
  [][/\ \A p \in Pairs :
          (ev'.kind = "add_return" /\ ev'.pair = p /\ ev'.why = "fetch_raised") =>
            /\ ~ev'.ret
            /\ ~InList(p, trading_pairs')
            /\ ~order_books'[p].present
            /\ ~tracking_message_queues'[p].present
            /\ \A t \in BagToSet(tasks') : ~(t.pair = p /\ t.mapped)
     /\ (ev'.kind = "apply_diff" /\ ev'.src = "saved") =>
          Len(hist.buffered) - Len(saved_message_queues[ev'.pair].q) >= hist.failed_at]_vars

\* ---- One pair added at run time, removed and added again, with diffs older
\* ---- and newer than its book and with trades.
NextCount ==
  \/ init_task.pc = "none" /\ start
  \/ InitOrderBooksBegin
  \/ \E p \in TrackedPairs : adds = EmptyBag /\ ~order_books[p].present /\ AddTradingPairCall(p)
  \/ \E r \in BagToSet(adds) : AddTradingPairWoken(r)
  \/ \E r \in BagToSet(adds) : AddTradingPairSubscribeReturns(r, "true")
  \/ \E r \in BagToSet(adds), c \in SnapshotContents : AddTradingPairFetchReturns(r, 2, c)
  \/ \E p \in TrackedPairs : removes = EmptyBag /\ adds = EmptyBag /\ RemoveTradingPairCall(p)
  \/ \E r \in BagToSet(removes), t \in BagToSet(tasks) : RemoveTradingPairTaskEnded(r, t)
  \/ \E r \in BagToSet(removes) : RemoveTradingPairUnsubscribeReturns(r, "true")
  \/ \E t \in BagToSet(tasks) : TrackSingleBookStart(t)
  \/ \E t \in BagToSet(tasks) : TrackSingleBookTurn(t)
  \/ \E t \in BagToSet(tasks) : TrackSingleBookWake(t)
  \/ \E t \in BagToSet(tasks) : TrackSingleBookCancelled(t)
  \/ \E p \in TrackedPairs, u \in {1, 3} :
       n_msgs < MaxMsgs /\ OrderBookDiffRouter(p, u, << << <<1, 2>> >>, <<>> >>)
  \/ \E p \in TrackedPairs :
       n_msgs < MaxMsgs /\ EmitTradeEventLoop(p, 1)

SpecCount == InitData /\ [][NextCount]_vars

DiffCounters(mt) == <<mt.total_diffs_queued, mt.total_diffs_rejected, mt.total_diffs_processed>>
TradeCounters(mt) == <<mt.total_trades_processed, mt.total_trades_rejected>>
\* the vectors that are v with one component one higher
OneUp(v) == {[v EXCEPT ![i] = @ + 1] : i \in 1..Len(v)}

\* C36: a step in which the diff router routes a diff raises exactly one of
\* total_diffs_queued, total_diffs_rejected, total_diffs_processed by one and
\* no other step changes them (so their sum is the number of diffs routed);
\* a step in which the trade loop handles a trade raises exactly one of
\* total_trades_processed, total_trades_rejected by one and no other step
\* changes them; and the diffs_processed and diffs_rejected of every entry of
\* the per-pair metrics map are at most the global totals.
C36_CounterConservation ==
  [][/\ IF ev'.kind \in {"diff_queued", "diff_rejected", "diff_accepted"}
          THEN DiffCounters(metrics') \in OneUp(DiffCounters(metrics))
          ELSE DiffCounters(metrics') = DiffCounters(metrics)
     /\ IF ev'.kind \in {"trade_applied", "trade_rejected"}
          THEN TradeCounters(metrics') \in OneUp(TradeCounters(metrics))
          ELSE TradeCounters(metrics') = TradeCounters(metrics)
     /\ \A p \in per_pair_metrics' :
          /\ hist'.pair_counts[p].diffs_processed <= metrics'.total_diffs_processed
          /\ hist'.pair_counts[p].diffs_rejected <= metrics'.total_diffs_rejected]_vars

\* C36 witness: the router has accepted a second diff of a pair whose metrics
\* entry was removed after the first one and created again by a trade, so
\* that the entry's diffs_processed is below the total
C36_Witness ==
  /\ ev.kind = "diff_accepted"
  /\ metrics.total_diffs_processed = 2
  /\ metrics.total_trades_processed = 1
  /\ ev.pair \in per_pair_metrics
  /\ hist.pair_counts[ev.pair].diffs_processed < metrics.total_diffs_processed

\* C37: in every state between two steps (every coroutine is at a suspension
\* point) the pairs that have a book are the pairs that have a message queue,
\* whatever the interleaving of startup, add_trading_pair (returning True,
\* False or rolled back), remove_trading_pair, start and stop; so the diff
\* router never finds a queue without its book.
C37_BooksAndQueuesPaired ==
  \A p \in Pairs : order_books[p].present <=> tracking_message_queues[p].present

\* C37 witness: an add_trading_pair call was rolled back, cancelling the
\* pair's task, while a second add and a remove of the same pair are in flight
C37_Witness ==
  /\ ev.kind = "add_return" /\ ev.why \in {"fetch_raised", "subscribe_raised"}
  /\ ~order_books[ev.pair].present
  /\ ~tracking_message_queues[ev.pair].present
  /\ \E r \in BagToSet(adds) : r.pair = ev.pair /\ r.pc = "fetch"
  /\ \E r \in BagToSet(removes) : r.pair = ev.pair
  /\ \E t \in BagToSet(tasks) : t.pair = ev.pair /\ t.st = "cancelling"

\* C38: a stop() step leaves every processing task cancelled, the task map
\* empty, the startup task and the routers (with the listeners, which are
\* started and cancelled with them) cancelled and the ready event cleared;
\* a start() step does the same to what ran before and leaves one new startup
\* task and one new set of routers and listeners.
C38_ShutdownAndRestart ==
  [][/\ (stop \/ start) =>
          /\ \A t \in BagToSet(tasks') : t.st \notin {"new", "blocked", "running", "backoff"}
          /\ \A t \in BagToSet(tasks') : ~t.mapped
          /\ ~order_books_initialized'
     /\ stop => (init_task' = NoInit /\ routers' = NoRouters)
     /\ start => (init_task'.pc = "new" /\ routers' = [NoRouters EXCEPT !.alive = TRUE])]_vars

\* C39: the snapshot router takes a snapshot, the trade loop handles a trade
\* and the last-trade-price loop gets prices only in a state where the ready
\* event is set; the diff router needs only to have been started.
C39_ReadyGating ==
  [][/\ ev'.kind \in {"snapshot_accepted", "snapshot_rejected", "trade_applied", "trade_rejected",
                      "rest_price_applied", "rest_price_failed"} =>
          (order_books_initialized /\ routers.alive)
     /\ ev'.kind \in {"diff_queued", "diff_rejected", "diff_accepted"} => routers.alive]_vars

\* C39 witness: after a restart, with the ready event not yet set again, the
\* diff router has routed a diff; a trade had been handled before the restart
C39_Witness ==
  /\ ev.kind \in {"diff_queued", "diff_accepted"}
  /\ ~order_books_initialized
  /\ init_task.pc \in {"new", "fetch", "sleep"}
  /\ metrics.total_trades_processed >= 1

\* ---- Two configured pairs, startup under fair scheduling: the tracker is
\* ---- started once and not stopped, every get_new_order_book of the startup
\* ---- task returns, callers wait for the ready event, pairs are removed.
StartupStep ==
  \/ InitOrderBooksBegin
  \/ \E c \in SnapshotContents : InitOrderBooksFetched(1, c)
  \/ InitOrderBooksSlept

WaiterStep == \E r \in BagToSet(adds) : AddTradingPairWoken(r)

NextLive ==
  \/ init_task.pc = "none" /\ start
  \/ StartupStep
  \/ \E p \in Pairs : adds = EmptyBag /\ AddTradingPairCall(p)
  \/ WaiterStep
  \/ \E r \in BagToSet(adds) : AddTradingPairSubscribeReturns(r, "false")
  \/ \E p \in Pairs : removes = EmptyBag /\ RemoveTradingPairCall(p)
  \/ \E r \in BagToSet(removes), t \in BagToSet(tasks) : RemoveTradingPairTaskEnded(r, t)
  \/ \E r \in BagToSet(removes) : RemoveTradingPairUnsubscribeReturns(r, "true")
  \/ \E t \in BagToSet(tasks) : TrackSingleBookStart(t)
  \/ \E t \in BagToSet(tasks) : TrackSingleBookCancelled(t)

\* a remove_trading_pair call in flight and the tasks it cancels run to their end
RemovalStep ==
  \/ \E r \in BagToSet(removes), t \in BagToSet(tasks) : RemoveTradingPairTaskEnded(r, t)
  \/ \E r \in BagToSet(removes) : RemoveTradingPairUnsubscribeReturns(r, "true")
  \/ \E t \in BagToSet(tasks) : TrackSingleBookCancelled(t)

\* the event loop runs every coroutine that is ready to run: the startup task
\* after each of its awaits has returned, the callers woken by the event, and
\* the calls in flight
SpecLive ==
  Init /\ [][NextLive]_vars /\ WF_vars(StartupStep) /\ WF_vars(WaiterStep) /\ WF_vars(RemovalStep)

\* p has a book, a message queue and a task
Active(p) == order_books[p].present /\ tracking_message_queues[p].present /\ HasTask(p)

\* C40: once the tracker is started, the ready event is eventually set; every
\* pair of the list of trading pairs eventually has a book, a message queue and
\* a task, unless it is taken off the list; a pair gets its book only after the
\* pairs listed before it; and every add_trading_pair call that waits for the
\* ready event of a started tracker eventually gets past the wait.
C40_StartupLiveness ==
  /\ (init_task.pc = "new") ~> order_books_initialized
  /\ \A p \in Pairs :
       (init_task.pc = "new") ~>
         (Active(p) \/ ~(\E i \in 1..Len(trading_pairs) : trading_pairs[i] = p))
  /\ [](\A i \in 1..Len(trading_pairs) :
          order_books[trading_pairs[i]].present =>
            \A j \in 1..(i - 1) : order_books[trading_pairs[j]].present \/ ready_ever_set)
  /\ \A p \in Pairs :
       (init_task.pc # "none" /\ \E r \in BagToSet(adds) : r.pair = p /\ r.pc = "wait") ~>
         ~(\E r \in BagToSet(adds) : r.pair = p /\ r.pc = "wait")
====
